---- MODULE Spec2Model ----
(***************************************************************************)
(* Report pipeline core of the news API: the ingestion use case            *)
(* (IngestReportsUseCase), its admission thresholds and intake filter, the *)
(* classification use case (ClassifyReportsUseCase) and the composition    *)
(* use case (GenerateArticlesFromReportsUseCase) with its agent adapter,   *)
(* driven in the order of ReportPipelineTask.execute.                      *)
(*                                                                         *)
(* A source id is a natural number, a candidate (NewsStory) is a record    *)
(* with its list of article ids and its publication time, a Report is a    *)
(* record with the fields the use cases read or write.                     *)
(***************************************************************************)
EXTENDS Integers, Sequences, FiniteSets, TLC

(***************************************************************************)
(* Bounds of the model                                                     *)
(***************************************************************************)
\* largest accepted-today count the count query answers
MaxCount == 15
\* the count query answers from -NegCount on
NegCount == 1
\* largest number of candidates in one fetched batch
MaxBatch == 3
\* largest number of frames in one answer of the composition model
MaxFrames == 2
\* largest number of reports pending beyond one classification batch
MaxBacklog == 1
\* the first MaxFlaky reports of a backlog are those the calls can fail for
MaxFlaky == 2
\* a composition is not triggered once randomUUID has given this many ids
MaxUuids == 3

(***************************************************************************)
(* Program constants                                                       *)
(***************************************************************************)
DAILY_TARGET == 14

\* findMany({ limit: 50, ... }) of the classification use case
CLASSIFY_LIMIT == 50

\* findStoriesWithoutArticles({ classification: ['STANDARD', 'NICHE'],
\* country, limit: 20 }) of the composition use case
COMPOSE_CLASSIFICATIONS == {"STANDARD", "NICHE"}

COMPOSE_LIMIT == 20

UNDEFINED == "undefined"

Tiers == {"GENERAL", "NICHE", "OFF_TOPIC"}

(***************************************************************************)
(* Candidates the news provider can return.  Candidate(s, n, t) has the    *)
(* n article ids s, s+1, .., s+n-1 and publication time t.                 *)
(***************************************************************************)
Candidate(start, n, t) ==
    [articles |-> [i \in 1..n |-> start + i - 1], publishedAt |-> t]

CandidatePool ==
    { Candidate(1, 8, 2),      \* the story of the stored report
      Candidate(1, 9, 3),      \* the same story one article later
      Candidate(101, 8, 4),    \* ties with the 8-article story
      Candidate(301, 25, 6),
      Candidate(401, 32, 7) }

ArticleIds(newsReport) ==
    { newsReport.articles[i] : i \in 1..Len(newsReport.articles) }

Range(s) == { s[i] : i \in 1..Len(s) }

\* batches of pairwise different candidates, of length 0..MaxBatch
Batches ==
    UNION { { b \in [1..n -> CandidatePool] :
                \A i, j \in 1..n : i # j => b[i] # b[j] } : n \in 0..MaxBatch }

(***************************************************************************)
(* What the ingestion agent can answer for a candidate: a result whose     *)
(* content the value objects accept, or one they reject (malformed).       *)
(***************************************************************************)
IngestionResults ==
    { [angles |-> <<"n1">>, categories |-> <<"WORLD">>,
       core |-> "core", background |-> "background",
       wellFormed |-> TRUE],
      [angles |-> <<"n1", "n2">>, categories |-> <<"TECH", "WORLD">>,
       core |-> "core", background |-> "background",
       wellFormed |-> TRUE],
      [angles |-> <<"">>, categories |-> <<"WORLD">>,
       core |-> "core", background |-> "background",
       wellFormed |-> FALSE] }

(***************************************************************************)
(* Admission controller                                                    *)
(***************************************************************************)
getDynamicThresholds_QuotaOff(todayReportCount) ==
    LET remaining == DAILY_TARGET - todayReportCount IN
    IF remaining < 0 THEN [maxReportsPerRun |-> 1, minArticles |-> 30]
    ELSE IF remaining <= 2 THEN [maxReportsPerRun |-> 1, minArticles |-> 22]
    ELSE IF remaining <= 5 THEN [maxReportsPerRun |-> 1, minArticles |-> 16]
    ELSE IF remaining <= 9 THEN [maxReportsPerRun |-> 2, minArticles |-> 12]
    ELSE [maxReportsPerRun |-> 3, minArticles |-> 8]

getDynamicThresholds_HardCap(todayReportCount) ==
    LET remaining == DAILY_TARGET - todayReportCount IN
    IF remaining <= 0 THEN [maxReportsPerRun |-> 0, minArticles |-> 30]
    ELSE IF remaining <= 2 THEN [maxReportsPerRun |-> 1, minArticles |-> 22]
    ELSE IF remaining <= 5 THEN [maxReportsPerRun |-> 1, minArticles |-> 16]
    ELSE IF remaining <= 9 THEN [maxReportsPerRun |-> 2, minArticles |-> 12]
    ELSE [maxReportsPerRun |-> 3, minArticles |-> 8]

getDynamicThresholds_Swapped(todayReportCount) ==
    LET remaining == DAILY_TARGET - todayReportCount IN
    IF remaining <= 0 THEN [maxReportsPerRun |-> 1, minArticles |-> 30]
    ELSE IF remaining <= 2 THEN [maxReportsPerRun |-> 1, minArticles |-> 22]
    ELSE IF remaining <= 5 THEN [maxReportsPerRun |-> 2, minArticles |-> 12]
    ELSE IF remaining <= 9 THEN [maxReportsPerRun |-> 1, minArticles |-> 16]
    ELSE [maxReportsPerRun |-> 3, minArticles |-> 8]

getDynamicThresholds(todayReportCount) ==
    LET remaining == DAILY_TARGET - todayReportCount IN
    IF remaining <= 0 THEN [maxReportsPerRun |-> 1, minArticles |-> 30]
    ELSE IF remaining <= 2 THEN [maxReportsPerRun |-> 1, minArticles |-> 22]
    ELSE IF remaining <= 5 THEN [maxReportsPerRun |-> 1, minArticles |-> 16]
    ELSE IF remaining <= 9 THEN [maxReportsPerRun |-> 2, minArticles |-> 12]
    ELSE [maxReportsPerRun |-> 3, minArticles |-> 8]

(***************************************************************************)
(* Intake filter: the synchronous steps 4 to 6 of execute                  *)
(***************************************************************************)
\* step 4: report.articles.length >= minArticles
FilterByArticleCount(newsStories, minArticles) ==
    LET keep(report) == Len(report.articles) >= minArticles
    IN  SelectSeq(newsStories, keep)

\* a candidate is dropped only when its last article is a seen source
FilterBySourceReferences_LastSeen(reports, existing) ==
    LET keep(report) == report.articles[Len(report.articles)] \notin existing
    IN  SelectSeq(reports, keep)

FilterBySourceReferences_AllSeen(reports, existing) ==
    LET keep(report) ==
            \E i \in 1..Len(report.articles) : report.articles[i] \notin existing
    IN  SelectSeq(reports, keep)

\* step 5: !report.articles.some(article => existing.includes(article.id))
FilterBySourceReferences(reports, existing) ==
    LET keep(report) ==
            ~ \E i \in 1..Len(report.articles) : report.articles[i] \in existing
    IN  SelectSeq(reports, keep)

CompareByArticleCount_Ascending(a, b) == Len(a.articles) - Len(b.articles)

\* the comparator of step 6: (a, b) => b.articles.length - a.articles.length
CompareByArticleCount(a, b) == Len(b.articles) - Len(a.articles)

\* Array.prototype.sort is stable: an element stays behind every earlier
\* element the comparator does not order after it
RECURSIVE InsertSorted(_, _)
InsertSorted(sorted, x) ==
    IF sorted = <<>> THEN <<x>>
    ELSE IF CompareByArticleCount(sorted[Len(sorted)], x) <= 0
         THEN Append(sorted, x)
         ELSE Append(InsertSorted(SubSeq(sorted, 1, Len(sorted) - 1), x),
                     sorted[Len(sorted)])

RECURSIVE Sort(_)
Sort(s) ==
    IF s = <<>> THEN <<>>
    ELSE InsertSorted(Sort(SubSeq(s, 1, Len(s) - 1)), s[Len(s)])

Slice_NoLimit(s, n) == s

\* Array.prototype.slice(0, n)
Slice(s, n) == SubSeq(s, 1, IF Len(s) < n THEN Len(s) ELSE n)

\* step 6
Prioritize(newNewsReports, maxReportsPerRun) ==
    Slice(Sort(newNewsReports), maxReportsPerRun)

(***************************************************************************)
(* The Report built at step 7.1                                            *)
(***************************************************************************)
\* the locale a use case runs for when the task is configured with one
Locale == [ country |-> "us", language |-> "en" ]

\* taskConfigs: the locales the pipeline task is configured with
TaskConfigs ==
    << Locale, [ country |-> "fr", language |-> "fr" ] >>


NewReport_Classified(reportId, ingestionResult, newsReport, country) ==
    [ id |-> reportId,
      angles |-> ingestionResult.angles,
      background |-> ingestionResult.background,
      categories |-> ingestionResult.categories,
      core |-> ingestionResult.core,
      classificationState |-> "CLASSIFIED",
      country |-> country,
      dateline |-> newsReport.publishedAt,
      deduplicationState |-> "PENDING",
      sourceReferences |-> newsReport.articles,
      tier |-> "GENERAL",
      traits |-> UNDEFINED ]

\* the report is dated with the time of the run, taken to be 0
NewReport_CreatedAt(reportId, ingestionResult, newsReport, country) ==
    [ id |-> reportId,
      angles |-> ingestionResult.angles,
      background |-> ingestionResult.background,
      categories |-> ingestionResult.categories,
      core |-> ingestionResult.core,
      classificationState |-> "PENDING",
      country |-> country,
      dateline |-> 0,
      deduplicationState |-> "PENDING",
      sourceReferences |-> newsReport.articles,
      tier |-> UNDEFINED,
      traits |-> UNDEFINED ]

NewReport(reportId, ingestionResult, newsReport, country) ==
    [ id |-> reportId,
      angles |-> ingestionResult.angles,
      background |-> ingestionResult.background,
      categories |-> ingestionResult.categories,
      core |-> ingestionResult.core,
      classificationState |-> "PENDING",
      country |-> country,
      dateline |-> newsReport.publishedAt,
      deduplicationState |-> "PENDING",
      sourceReferences |-> newsReport.articles,
      tier |-> UNDEFINED,
      traits |-> UNDEFINED ]

NoReport ==
    [ id |-> 0, angles |-> <<>>, background |-> "", categories |-> <<>>,
      core |-> "", classificationState |-> "PENDING", country |-> "",
      dateline |-> 0,
      deduplicationState |-> "PENDING", sourceReferences |-> <<>>,
      tier |-> UNDEFINED, traits |-> UNDEFINED ]

(***************************************************************************)
(* Report store                                                            *)
(***************************************************************************)
\* the report ingested from the 8-article story in an earlier run
StoredReport(id) ==
    NewReport(id, [angles |-> <<"n1">>, categories |-> <<"WORLD">>,
                   core |-> "core", background |-> "background",
                   wellFormed |-> TRUE], Candidate(1, 8, 2),
              Locale.country)

InitialStores == { <<>>, <<StoredReport(1)>> }

\* the report ingested from the 8-article story with two angles
SecondReport(id) ==
    NewReport(id, [angles |-> <<"n1", "n2">>, categories |-> <<"TECH", "WORLD">>,
                   core |-> "core", background |-> "background",
                   wellFormed |-> TRUE], Candidate(101, 8, 4),
              Locale.country)

\* the report ingested from the 25-article story
ThirdReport(id) ==
    NewReport(id, [angles |-> <<"n1">>, categories |-> <<"WORLD">>,
                   core |-> "core", background |-> "background",
                   wellFormed |-> TRUE], Candidate(301, 25, 6),
              Locale.country)

\* getAllSourceReferences: every source id of every stored report
AllSourceReferences(reports) ==
    UNION { Range(reports[i].sourceReferences) : i \in 1..Len(reports) }

\* findMany({ limit, where: { classification: 'PENDING_CLASSIFICATION' } }):
\* the first `limit` stored reports whose classification is pending
FindPendingClassification(reports, limit) ==
    LET pending(r) == r.classificationState = "PENDING"
    IN  Slice(SelectSeq(reports, pending), limit)

\* update(id, { classification }): the stored classification holds the tier
\* once it is no longer pending; no other field is part of the patch
UpdateClassification(reports, id, classification) ==
    [ i \in 1..Len(reports) |->
        IF reports[i].id = id
        THEN [ reports[i] EXCEPT !.classificationState = "CLASSIFIED",
                                 !.tier = classification ]
        ELSE reports[i] ]

(***************************************************************************)
(* Article composition: the agent adapter, the article, the queries        *)
(***************************************************************************)
\* what the language model can answer to one composition prompt: nothing,
\* an error, or a headline, a body and 1..MaxFrames frames
ModelAnswer(k) ==
    [ kind |-> "result", body |-> "body", headline |-> "headline",
      frames |-> [ i \in 1..k |-> [ body |-> <<"body", i>>,
                                    headline |-> <<"headline", i>> ] ] ]

NoAnswer == [ kind |-> "none", body |-> "", headline |-> "", frames |-> <<>> ]

AnswerThrew ==
    [ kind |-> "threw", body |-> "", headline |-> "", frames |-> <<>> ]

\* the composition agent port rejected before any answer was read
PortThrew ==
    [ kind |-> "rejected", body |-> "", headline |-> "", frames |-> <<>> ]

ModelAnswers == { ModelAnswer(k) : k \in 1..MaxFrames } \cup {NoAnswer, AnswerThrew}

NoResult == [ body |-> "", frames |-> <<>>, headline |-> "", isNull |-> TRUE ]

\* ArticleCompositionAgentAdapter.run with the frame-count check left out
ArticleCompositionAgentAdapter_run_Unchecked(input, answer) ==
    IF answer.kind # "result"
    THEN NoResult
    ELSE [ body |-> answer.body,
           frames |-> [ i \in 1..Len(answer.frames) |->
                          [ body |-> answer.frames[i].body,
                            headline |-> answer.frames[i].headline ] ],
           headline |-> answer.headline,
           isNull |-> FALSE ]

\* ArticleCompositionAgentAdapter.run: null when the model gave no result,
\* when the number of frames is not the number of angles, or when anything
\* threw; else the body, the frames and the headline
ArticleCompositionAgentAdapter_run(input, answer) ==
    IF answer.kind # "result"
    THEN NoResult
    ELSE IF Len(answer.frames) # Len(input.report.angles)
    THEN NoResult
    ELSE [ body |-> answer.body,
           frames |-> [ i \in 1..Len(answer.frames) |->
                          [ body |-> answer.frames[i].body,
                            headline |-> answer.frames[i].headline ] ],
           headline |-> answer.headline,
           isNull |-> FALSE ]

\* new ArticleFrame({ body, headline, ... }) of one item of the result
ArticleFrame(variantData) ==
    [ body |-> variantData.body, headline |-> variantData.headline ]

\* variants.map(...) with the items taken last to first
ArticleFrames_Reversed(variants) ==
    [ i \in 1..Len(variants) |->
        ArticleFrame(variants[Len(variants) + 1 - i]) ]

\* variants.map((variantData) => new ArticleFrame(...)): one frame per
\* item of the result, in the order of the result
ArticleFrames(variants) ==
    [ i \in 1..Len(variants) |-> ArticleFrame(variants[i]) ]

\* report.category: the category a report is filed under
ReportCategory(r) == r.categories[1]

\* new Article({ ... }) with the fake flag set
NewArticle_Fake(articleId, r, compositionResult, country, language) ==
    [ id |-> articleId,
      authenticity |-> TRUE,
      body |-> compositionResult.body,
      category |-> ReportCategory(r),
      country |-> country,
      frames |-> ArticleFrames(compositionResult.frames),
      headline |-> compositionResult.headline,
      language |-> language,
      publishedAt |-> r.dateline,
      reportIds |-> <<r.id>> ]

\* new Article({ ... }): authenticity is new Authenticity(false)
NewArticle(articleId, r, compositionResult, country, language) ==
    [ id |-> articleId,
      authenticity |-> FALSE,
      body |-> compositionResult.body,
      category |-> ReportCategory(r),
      country |-> country,
      frames |-> ArticleFrames(compositionResult.frames),
      headline |-> compositionResult.headline,
      language |-> language,
      publishedAt |-> r.dateline,
      reportIds |-> <<r.id>> ]

NoArticle ==
    [ id |-> 0, authenticity |-> FALSE, body |-> "", category |-> "",
      country |-> "", frames |-> <<>>, headline |-> "", language |-> "",
      publishedAt |-> 0, reportIds |-> <<>> ]

\* the reports that are the source of a stored article
ReportsWithArticles(stored) ==
    UNION { Range(stored[i].reportIds) : i \in 1..Len(stored) }

\* findStoriesWithoutArticles({ classification, country, limit }): the first
\* `limit` reports of the country that are classified into one of the listed
\* classifications, are not duplicates and are the source of no article
FindStoriesWithoutArticles(reports, stored, classification, country, limit) ==
    LET eligible(r) ==
            /\ r.country = country
            /\ r.classificationState = "CLASSIFIED"
            /\ r.tier \in classification
            /\ r.deduplicationState # "DUPLICATE"
            /\ r.id \notin ReportsWithArticles(stored)
    IN  Slice(SelectSeq(reports, eligible), limit)

\* createMany([article]): the article joins the store
CreateMany(stored, created) == stored \o created

\* a stored report after a classification run wrote its classification
Classified(r, classification) ==
    UpdateClassification(<<r>>, r.id, classification)[1]

\* a stored report after the deduplication step found it a duplicate
Duplicate(r) == [ r EXCEPT !.deduplicationState = "DUPLICATE" ]

\* stores a classification run can find: empty, pending reports only, and
\* a report classified by an earlier run before two pending ones
ClassifyStores ==
    { <<>>,
      <<StoredReport(1)>>,
      <<StoredReport(1), SecondReport(2), ThirdReport(3)>>,
      <<Classified(StoredReport(1), "NICHE"), SecondReport(2),
        ThirdReport(3)>> }

\* the id-th report of a backlog of pending reports
BacklogReport(id) ==
    NewReport(id, [angles |-> <<"n1">>, categories |-> <<"WORLD">>,
                   core |-> "core", background |-> "background",
                   wellFormed |-> TRUE], Candidate(100 * id + 1, 8, 2),
              Locale.country)

Backlog(n) == [ id \in 1..n |-> BacklogReport(id) ]

\* a report the classification agent answers null for, every time
GarbledReport(id) ==
    NewReport(id, [angles |-> <<"garbled">>, categories |-> <<"WORLD">>,
                   core |-> "core", background |-> "background",
                   wellFormed |-> TRUE], Candidate(100 * id + 1, 8, 2),
              Locale.country)

Unclassifiable(r) == r.angles = <<"garbled">>

\* a backlog of n pending reports whose first p are garbled
GarbledBacklog(p, n) ==
    [ id \in 1..n |-> IF id <= p THEN GarbledReport(id)
                                 ELSE BacklogReport(id) ]

\* stores with a backlog: one full batch of pending reports and up to
\* MaxBacklog more, a short one, and backlogs that start with a full
\* batch, or one less, of garbled reports
RetryStores ==
    { Backlog(CLASSIFY_LIMIT + k) : k \in 0..MaxBacklog }
       \cup { Backlog(MaxFlaky) }
       \cup { GarbledBacklog(CLASSIFY_LIMIT - k, CLASSIFY_LIMIT + MaxBacklog) :
                 k \in 0..1 }

\* stores a composition run can find
ComposeStores ==
    { <<>>,
      <<Classified(StoredReport(1), "NICHE")>>,
      <<Classified(StoredReport(1), "NICHE"),
        Classified(SecondReport(2), "NICHE")>>,
      <<Classified(SecondReport(1), "NICHE"),
        Classified(StoredReport(2), "NICHE"),
        Classified(ThirdReport(3), "NICHE")>>,
      <<Classified(StoredReport(1), "GENERAL"),
        Classified(SecondReport(2), "NICHE"),
        Classified(ThirdReport(3), "OFF_TOPIC")>>,
      <<Classified(SecondReport(1), "NICHE"), StoredReport(2),
        Duplicate(Classified(ThirdReport(3), "NICHE"))>>,
      <<StoredReport(1), Classified(SecondReport(2), "OFF_TOPIC"),
        Duplicate(Classified(ThirdReport(3), "NICHE"))>> }

VARIABLES
    taskPc,                     \* where ReportPipelineTask.execute stands
    store,                      \* the persisted reports, in creation order
    ingestPc,                   \* where IngestReportsUseCase.execute stands
    todayReportCount,
    thresholds,
    existingSourceReferences,
    newsStories,
    articleFilteredReports,
    newNewsReports,
    prioritizedReports,
    index,                      \* position of the for-of loop of step 7
    report,                     \* the report built at 7.1, awaiting create
    digestedReports,
    ingestError,                \* the error execute rethrew, if any
    rejectedCall,               \* the call of steps 1 to 3 that rejected
    agentInputs,                \* candidates handed to the ingestion agent
    outcomes,                   \* how each processed candidate ended
    persisted,                  \* reports this run wrote to the store
    classifyPc,                 \* where ClassifyReportsUseCase.execute stands
    reportsToReview,
    reviewIndex,                \* position of the for-of loop over the batch
    result,                     \* the classification the agent answered
    successfulClassifications,
    failedClassifications,
    classifyInputs,             \* ids handed to the classification agent
    classifyOutcomes,           \* how each processed report ended
    updateCalls,                \* ids handed to reportRepository.update
    classifyRejected,           \* the call whose rejection execute rethrew
    leftPending                 \* ids the run before this one left PENDING

filterVars ==
    << newsStories, articleFilteredReports, newNewsReports,
       prioritizedReports >>

loopVars ==
    << index, report, digestedReports, agentInputs, outcomes, persisted >>

ingestVars ==
    << ingestPc, todayReportCount, thresholds, existingSourceReferences,
       newsStories, articleFilteredReports, newNewsReports,
       prioritizedReports, index, report, digestedReports, ingestError,
       rejectedCall, agentInputs, outcomes, persisted >>

classifyLog == << classifyInputs, classifyOutcomes, updateCalls >>

classifyVars ==
    << classifyPc, reportsToReview, reviewIndex, result,
       successfulClassifications, failedClassifications, classifyInputs,
       classifyOutcomes, updateCalls, classifyRejected, leftPending >>

VARIABLES
    articles,                   \* the persisted articles, in creation order
    composePc,                  \* where GenerateArticlesFromReportsUseCase
                                \* .execute stands
    reportsToProcess,
    composeIndex,               \* position of the for-of loop over the batch
    article,                    \* the article built, awaiting createMany
    generatedArticles,
    uuidCount,                  \* how many ids randomUUID has handed out
    composeInputs,              \* ids handed to the composition agent
    composeAnswers,             \* what the model answered for each of them
    composeOutcomes,            \* how each processed report ended
    createManyCalls,            \* articles handed to createMany
    composeRejected             \* the call whose rejection execute rethrew

composeLog ==
    << composeInputs, composeAnswers, composeOutcomes, createManyCalls >>

composeVars ==
    << articles, composePc, reportsToProcess, composeIndex, article,
       generatedArticles, uuidCount, composeInputs, composeAnswers,
       composeOutcomes, createManyCalls, composeRejected >>

\* the locals of the composition use case run for the one locale
composeLocals ==
    << composePc, reportsToProcess, composeIndex, article, generatedArticles,
       uuidCount, composeLog, composeRejected >>

VARIABLES
    ingestTasks,                \* per configured locale, where the call
                                \* ingestReports.execute(language, country)
                                \* of step 1 stands and what it holds
    composeTasks,               \* the same for the calls of step 3,
                                \* generateArticlesFromReports.execute
    taskError,                  \* the error execute rethrew, if any
    secondRun                   \* a classifyReports.execute started while
                                \* the first one is still running

taskVars == << ingestTasks, composeTasks, taskError, secondRun >>

vars == << taskPc, store, ingestVars, classifyVars, composeVars, taskVars >>

IngestInit ==
    /\ ingestPc = "count"
    /\ todayReportCount = 0
    /\ thresholds = [maxReportsPerRun |-> 0, minArticles |-> 0]
    /\ existingSourceReferences = {}
    /\ newsStories = <<>>
    /\ articleFilteredReports = <<>>
    /\ newNewsReports = <<>>
    /\ prioritizedReports = <<>>
    /\ index = 0
    /\ report = NoReport
    /\ digestedReports = <<>>
    /\ ingestError = "none"
    /\ rejectedCall = "none"
    /\ agentInputs = <<>>
    /\ outcomes = <<>>
    /\ persisted = <<>>

\* the locals of ClassifyReportsUseCase.execute before it runs
ClassifyInit ==
    /\ reportsToReview = <<>>
    /\ reviewIndex = 0
    /\ result = UNDEFINED
    /\ successfulClassifications = 0
    /\ failedClassifications = 0
    /\ classifyInputs = <<>>
    /\ classifyOutcomes = <<>>
    /\ updateCalls = <<>>
    /\ classifyRejected = "none"

\* the locals of GenerateArticlesFromReportsUseCase.execute before it runs
ComposeInit ==
    /\ reportsToProcess = <<>>
    /\ composeIndex = 0
    /\ article = NoArticle
    /\ generatedArticles = <<>>
    /\ composeInputs = <<>>
    /\ composeAnswers = <<>>
    /\ composeOutcomes = <<>>
    /\ createManyCalls = <<>>
    /\ composeRejected = "none"

\* no call of ingestReports.execute is running
NoIngestTask ==
    [ pc |-> "idle", prioritizedReports |-> <<>>, index |-> 0,
      report |-> NoReport ]

\* no call of generateArticlesFromReports.execute is running
NoComposeTask ==
    [ pc |-> "idle", reportsToProcess |-> <<>>, index |-> 0,
      article |-> NoArticle ]

\* no second call of classifyReports.execute is running
NoSecondRun ==
    [ pc |-> "idle", reportsToReview |-> <<>>, index |-> 0,
      result |-> UNDEFINED, updated |-> {} ]

\* the per-locale calls before execute starts them
TasksInit ==
    /\ ingestTasks = [ l \in 1..Len(TaskConfigs) |-> NoIngestTask ]
    /\ composeTasks = [ l \in 1..Len(TaskConfigs) |-> NoComposeTask ]
    /\ taskError = "none"
    /\ secondRun = NoSecondRun

Init ==
    /\ taskPc = "ingest"
    /\ store \in InitialStores
    /\ IngestInit
    /\ classifyPc = "idle"
    /\ ClassifyInit
    /\ leftPending = {}
    /\ composePc = "idle"
    /\ articles = <<>>
    /\ uuidCount = 0
    /\ ComposeInit
    /\ TasksInit

(***************************************************************************)
(* IngestReportsUseCase.execute                                            *)
(***************************************************************************)
IngestRethrow_Swallow(error) ==
    /\ ingestPc' = "returned"
    /\ ingestError' = "none"

\* the outer catch: log and rethrow
IngestRethrow(error) ==
    /\ ingestPc' = "thrown"
    /\ ingestError' = error

\* step 1: countByDateRange resolves, thresholds are computed
CountByDateRange ==
    /\ taskPc = "ingest"
    /\ ingestPc = "count"
    /\ \E n \in (0 - NegCount)..MaxCount :
          /\ todayReportCount' = n
          /\ thresholds' = getDynamicThresholds(n)
    /\ ingestPc' = "sources"
    /\ UNCHANGED << taskVars, taskPc, store, classifyVars, composeVars,
                    existingSourceReferences,
                    filterVars, loopVars, ingestError, rejectedCall >>

CountByDateRangeThrows ==
    /\ taskPc = "ingest"
    /\ ingestPc = "count"
    /\ rejectedCall' = "countByDateRange"
    /\ IngestRethrow("countByDateRange")
    /\ UNCHANGED << taskVars, taskPc, store, classifyVars, composeVars,
                    todayReportCount, thresholds,
                    existingSourceReferences, filterVars, loopVars >>

\* step 2 resolves with no source reference at all
GetAllSourceReferences_Nothing ==
    /\ ingestPc = "sources"
    /\ existingSourceReferences' = {}
    /\ ingestPc' = "fetch"
    /\ UNCHANGED << taskVars, taskPc, store, classifyVars, composeVars,
                    todayReportCount, thresholds,
                    filterVars, loopVars, ingestError, rejectedCall >>

\* step 2: getAllSourceReferences resolves
GetAllSourceReferences ==
    /\ ingestPc = "sources"
    /\ existingSourceReferences' = AllSourceReferences(store)
    /\ ingestPc' = "fetch"
    /\ UNCHANGED << taskVars, taskPc, store, classifyVars, composeVars,
                    todayReportCount, thresholds,
                    filterVars, loopVars, ingestError, rejectedCall >>

GetAllSourceReferencesThrows ==
    /\ ingestPc = "sources"
    /\ rejectedCall' = "getAllSourceReferences"
    /\ IngestRethrow("getAllSourceReferences")
    /\ UNCHANGED << taskVars, taskPc, store, classifyVars, composeVars,
                    todayReportCount, thresholds,
                    existingSourceReferences, filterVars, loopVars >>

\* fetchNews resolves and a run left without a candidate is an error
FetchNews_ThrowOnEmpty ==
    /\ ingestPc = "fetch"
    /\ \E batch \in Batches :
          LET filtered == FilterByArticleCount(batch, thresholds.minArticles)
              fresh == FilterBySourceReferences(filtered,
                                                existingSourceReferences)
              selected == Prioritize(fresh, thresholds.maxReportsPerRun)
          IN  /\ newsStories' = batch
              /\ articleFilteredReports' =
                    IF batch = <<>> THEN <<>> ELSE filtered
              /\ newNewsReports' =
                    IF batch = <<>> \/ filtered = <<>> THEN <<>>
                    ELSE IF fresh = <<>> THEN <<>> ELSE Sort(fresh)
              /\ prioritizedReports' =
                    IF batch = <<>> \/ filtered = <<>> \/ fresh = <<>>
                    THEN <<>> ELSE selected
              /\ IF batch = <<>> \/ filtered = <<>> \/ fresh = <<>>
                    \/ selected = <<>>
                 THEN ingestPc' = "thrown" /\ index' = 0
                 ELSE ingestPc' = "agent" /\ index' = 1
    /\ UNCHANGED << taskVars, taskPc, store, classifyVars, composeVars,
                    todayReportCount, thresholds,
                    existingSourceReferences, report, digestedReports,
                    agentInputs, outcomes, persisted, ingestError,
                    rejectedCall >>

\* step 3 resolves, then steps 4 to 6 run to the first agent call or to one
\* of the early returns
FetchNews ==
    /\ ingestPc = "fetch"
    /\ \E batch \in Batches :
          LET filtered == FilterByArticleCount(batch, thresholds.minArticles)
              fresh == FilterBySourceReferences(filtered,
                                                existingSourceReferences)
              selected == Prioritize(fresh, thresholds.maxReportsPerRun)
          IN  /\ newsStories' = batch
              /\ articleFilteredReports' =
                    IF batch = <<>> THEN <<>> ELSE filtered
              /\ newNewsReports' =
                    IF batch = <<>> \/ filtered = <<>> THEN <<>>
                    ELSE IF fresh = <<>> THEN <<>> ELSE Sort(fresh)
              /\ prioritizedReports' =
                    IF batch = <<>> \/ filtered = <<>> \/ fresh = <<>>
                    THEN <<>> ELSE selected
              /\ IF batch = <<>> \/ filtered = <<>> \/ fresh = <<>>
                    \/ selected = <<>>
                 THEN ingestPc' = "returned" /\ index' = 0
                 ELSE ingestPc' = "agent" /\ index' = 1
    /\ UNCHANGED << taskVars, taskPc, store, classifyVars, composeVars,
                    todayReportCount, thresholds,
                    existingSourceReferences, report, digestedReports,
                    agentInputs, outcomes, persisted, ingestError,
                    rejectedCall >>

FetchNewsThrows ==
    /\ ingestPc = "fetch"
    /\ rejectedCall' = "fetchNews"
    /\ IngestRethrow("fetchNews")
    /\ UNCHANGED << taskVars, taskPc, store, classifyVars, composeVars,
                    todayReportCount, thresholds,
                    existingSourceReferences, filterVars, loopVars >>

\* the for-of loop moves to the next candidate, or execute returns
NextCandidate(outcome) ==
    /\ outcomes' = Append(outcomes, outcome)
    /\ IF index < Len(prioritizedReports)
       THEN index' = index + 1 /\ ingestPc' = "agent"
       ELSE index' = index /\ ingestPc' = "returned"

\* step 7.1: the agent answers with a result the value objects accept
IngestionAgentRun ==
    /\ ingestPc = "agent"
    /\ \E ingestionResult \in IngestionResults :
          /\ ingestionResult.wellFormed
          /\ report' = NewReport(Len(store) + 1, ingestionResult,
                                 prioritizedReports[index], Locale.country)
    /\ agentInputs' = Append(agentInputs, prioritizedReports[index])
    /\ ingestPc' = "create"
    /\ UNCHANGED << taskVars, taskPc, store, classifyVars, composeVars,
                    todayReportCount, thresholds,
                    existingSourceReferences, filterVars, index,
                    digestedReports, outcomes, persisted, ingestError,
                    rejectedCall >>

\* step 7.1: the agent answers null: warn and continue
IngestionAgentReturnsNull ==
    /\ ingestPc = "agent"
    /\ agentInputs' = Append(agentInputs, prioritizedReports[index])
    /\ NextCandidate("null")
    /\ UNCHANGED << taskVars, taskPc, store, classifyVars, composeVars,
                    todayReportCount, thresholds,
                    existingSourceReferences, filterVars, report,
                    digestedReports, persisted, ingestError, rejectedCall >>

IngestionAgentThrows_Abort ==
    /\ ingestPc = "agent"
    /\ agentInputs' = Append(agentInputs, prioritizedReports[index])
    /\ outcomes' = Append(outcomes, "agentThrew")
    /\ IngestRethrow("agent")
    /\ UNCHANGED << taskVars, taskPc, store, classifyVars, composeVars,
                    todayReportCount, thresholds,
                    existingSourceReferences, filterVars, index, report,
                    digestedReports, persisted, rejectedCall >>

\* step 7.1: the agent call rejects: the inner catch logs it
IngestionAgentThrows ==
    /\ ingestPc = "agent"
    /\ agentInputs' = Append(agentInputs, prioritizedReports[index])
    /\ NextCandidate("agentThrew")
    /\ UNCHANGED << taskVars, taskPc, store, classifyVars, composeVars,
                    todayReportCount, thresholds,
                    existingSourceReferences, filterVars, report,
                    digestedReports, persisted, ingestError, rejectedCall >>

\* step 7.1: a value object rejects the agent's content: the constructor
\* throws into the inner catch
ReportConstructionThrows ==
    /\ ingestPc = "agent"
    /\ \E ingestionResult \in IngestionResults : ~ ingestionResult.wellFormed
    /\ agentInputs' = Append(agentInputs, prioritizedReports[index])
    /\ NextCandidate("constructionThrew")
    /\ UNCHANGED << taskVars, taskPc, store, classifyVars, composeVars,
                    todayReportCount, thresholds,
                    existingSourceReferences, filterVars, report,
                    digestedReports, persisted, ingestError, rejectedCall >>

\* step 7.2: create resolves, the saved report joins the result
CreateReport ==
    /\ ingestPc = "create"
    /\ store' = Append(store, report)
    /\ persisted' = Append(persisted, report)
    /\ digestedReports' = Append(digestedReports, report)
    /\ report' = NoReport
    /\ NextCandidate("ingested")
    /\ UNCHANGED << taskVars, taskPc, classifyVars, composeVars,
                    todayReportCount, thresholds,
                    existingSourceReferences, filterVars, agentInputs,
                    ingestError, rejectedCall >>

\* step 7.2: create rejects: the inner catch logs it
CreateReportThrows ==
    /\ ingestPc = "create"
    /\ report' = NoReport
    /\ NextCandidate("createThrew")
    /\ UNCHANGED << taskVars, taskPc, store, classifyVars, composeVars,
                    todayReportCount, thresholds,
                    existingSourceReferences, filterVars, digestedReports,
                    agentInputs, persisted, ingestError, rejectedCall >>

(***************************************************************************)
(* ClassifyReportsUseCase.execute                                          *)
(***************************************************************************)
\* the for-of loop moves to the next report, or execute logs and returns
NextReport(outcome) ==
    /\ classifyOutcomes' = Append(classifyOutcomes, outcome)
    /\ IF reviewIndex < Len(reportsToReview)
       THEN reviewIndex' = reviewIndex + 1 /\ classifyPc' = "agent"
       ELSE reviewIndex' = reviewIndex /\ classifyPc' = "returned"

\* findMany resolves, and an empty batch is treated as an error
FindReportsToReview_ThrowOnEmpty ==
    /\ taskPc = "classify"
    /\ classifyPc = "find"
    /\ LET found == FindPendingClassification(store, CLASSIFY_LIMIT)
       IN  /\ reportsToReview' = found
           /\ IF found = <<>>
              THEN classifyPc' = "thrown" /\ reviewIndex' = 0
              ELSE classifyPc' = "agent" /\ reviewIndex' = 1
    /\ UNCHANGED << taskVars, taskPc, store, ingestVars, composeVars, result,
                    successfulClassifications, failedClassifications,
                    classifyLog, classifyRejected,
                    leftPending >>

\* findMany is called without the where clause and resolves with the first
\* reports of the store, classified or not
FindReportsToReview_Everything ==
    /\ taskPc = "classify"
    /\ classifyPc = "find"
    /\ LET found == Slice(store, CLASSIFY_LIMIT)
       IN  /\ reportsToReview' = found
           /\ IF found = <<>>
              THEN classifyPc' = "returned" /\ reviewIndex' = 0
              ELSE classifyPc' = "agent" /\ reviewIndex' = 1
    /\ UNCHANGED << taskVars, taskPc, store, ingestVars, composeVars, result,
                    successfulClassifications, failedClassifications,
                    classifyLog, classifyRejected,
                    leftPending >>

\* findMany resolves: return at once on an empty batch, else start the loop
FindReportsToReview ==
    /\ taskPc = "classify"
    /\ classifyPc = "find"
    /\ LET found == FindPendingClassification(store, CLASSIFY_LIMIT)
       IN  /\ reportsToReview' = found
           /\ IF found = <<>>
              THEN classifyPc' = "returned" /\ reviewIndex' = 0
              ELSE classifyPc' = "agent" /\ reviewIndex' = 1
    /\ UNCHANGED << taskVars, taskPc, store, ingestVars, composeVars, result,
                    successfulClassifications, failedClassifications,
                    classifyLog, classifyRejected,
                    leftPending >>

\* findMany rejects and the rejection is swallowed: execute returns
FindReportsToReviewThrows_Swallow ==
    /\ taskPc = "classify"
    /\ classifyPc = "find"
    /\ classifyPc' = "returned"
    /\ classifyRejected' = "findMany"
    /\ UNCHANGED << taskVars,
                    taskPc, store, ingestVars, composeVars, reportsToReview,
                    reviewIndex, result, successfulClassifications,
                    failedClassifications, classifyLog,
                    leftPending >>

\* findMany rejects: the outer catch logs and rethrows
FindReportsToReviewThrows ==
    /\ taskPc = "classify"
    /\ classifyPc = "find"
    /\ classifyPc' = "thrown"
    /\ classifyRejected' = "findMany"
    /\ UNCHANGED << taskVars,
                    taskPc, store, ingestVars, composeVars, reportsToReview,
                    reviewIndex, result, successfulClassifications,
                    failedClassifications, classifyLog,
                    leftPending >>

\* the agent answers with a classification
ClassificationAgentRun ==
    /\ classifyPc = "agent"
    /\ \E classification \in Tiers : result' = classification
    /\ classifyInputs' = Append(classifyInputs, reportsToReview[reviewIndex].id)
    /\ classifyPc' = "update"
    /\ UNCHANGED << taskVars,
                    taskPc, store, ingestVars, composeVars, reportsToReview,
                    reviewIndex, successfulClassifications,
                    failedClassifications, classifyOutcomes, updateCalls,
                    classifyRejected,
                    leftPending >>

\* the agent answers null and the report is filed as OFF_TOPIC for good
ClassificationAgentReturnsNull_GiveUp ==
    /\ classifyPc = "agent"
    /\ store' = UpdateClassification(store, reportsToReview[reviewIndex].id,
                                     "OFF_TOPIC")
    /\ classifyInputs' = Append(classifyInputs, reportsToReview[reviewIndex].id)
    /\ failedClassifications' = failedClassifications + 1
    /\ NextReport("null")
    /\ UNCHANGED << taskVars, taskPc, ingestVars, composeVars, reportsToReview,
                    result, successfulClassifications, updateCalls,
                    classifyRejected, leftPending >>

\* the agent answers null: warn, count a failure
ClassificationAgentReturnsNull ==
    /\ classifyPc = "agent"
    /\ classifyInputs' = Append(classifyInputs, reportsToReview[reviewIndex].id)
    /\ failedClassifications' = failedClassifications + 1
    /\ NextReport("null")
    /\ UNCHANGED << taskVars,
                    taskPc, store, ingestVars, composeVars, reportsToReview,
                    result, successfulClassifications, updateCalls,
                    classifyRejected,
                    leftPending >>

\* the agent call rejects and nothing catches it inside the loop
ClassificationAgentThrows_Abort ==
    /\ classifyPc = "agent"
    /\ classifyInputs' = Append(classifyInputs, reportsToReview[reviewIndex].id)
    /\ classifyPc' = "thrown"
    /\ UNCHANGED << taskVars,
                    taskPc, store, ingestVars, composeVars, reportsToReview,
                    reviewIndex, result, successfulClassifications,
                    failedClassifications, classifyOutcomes, updateCalls,
                    classifyRejected,
                    leftPending >>

\* the agent call rejects: the inner catch counts a failure
ClassificationAgentThrows ==
    /\ classifyPc = "agent"
    /\ classifyInputs' = Append(classifyInputs, reportsToReview[reviewIndex].id)
    /\ failedClassifications' = failedClassifications + 1
    /\ NextReport("agentThrew")
    /\ UNCHANGED << taskVars,
                    taskPc, store, ingestVars, composeVars, reportsToReview,
                    result, successfulClassifications, updateCalls,
                    classifyRejected,
                    leftPending >>

\* update resolves, its patch holding the tier and not the state
UpdateReport_TierOnly ==
    /\ classifyPc = "update"
    /\ store' = [ i \in 1..Len(store) |->
                    IF store[i].id = reportsToReview[reviewIndex].id
                    THEN [ store[i] EXCEPT !.tier = result ]
                    ELSE store[i] ]
    /\ updateCalls' = Append(updateCalls, reportsToReview[reviewIndex].id)
    /\ successfulClassifications' = successfulClassifications + 1
    /\ result' = UNDEFINED
    /\ NextReport("classified")
    /\ UNCHANGED << taskVars, taskPc, ingestVars, composeVars, reportsToReview,
                    failedClassifications, classifyInputs, classifyRejected,
                    leftPending >>

\* update resolves: the one write of a successful classification
UpdateReport ==
    /\ classifyPc = "update"
    /\ store' = UpdateClassification(store, reportsToReview[reviewIndex].id,
                                     result)
    /\ updateCalls' = Append(updateCalls, reportsToReview[reviewIndex].id)
    /\ successfulClassifications' = successfulClassifications + 1
    /\ result' = UNDEFINED
    /\ NextReport("classified")
    /\ UNCHANGED << taskVars, taskPc, ingestVars, composeVars, reportsToReview,
                    failedClassifications, classifyInputs, classifyRejected,
                    leftPending >>

\* update rejects and the report is counted as classified all the same
UpdateReportThrows_CountedClassified ==
    /\ classifyPc = "update"
    /\ updateCalls' = Append(updateCalls, reportsToReview[reviewIndex].id)
    /\ successfulClassifications' = successfulClassifications + 1
    /\ result' = UNDEFINED
    /\ NextReport("updateThrew")
    /\ UNCHANGED << taskVars, taskPc, store, ingestVars, composeVars,
                    reportsToReview, failedClassifications, classifyInputs,
                    classifyRejected, leftPending >>

\* update rejects: the inner catch counts a failure
UpdateReportThrows ==
    /\ classifyPc = "update"
    /\ updateCalls' = Append(updateCalls, reportsToReview[reviewIndex].id)
    /\ failedClassifications' = failedClassifications + 1
    /\ result' = UNDEFINED
    /\ NextReport("updateThrew")
    /\ UNCHANGED << taskVars,
                    taskPc, store, ingestVars, composeVars, reportsToReview,
                    successfulClassifications, classifyInputs,
                    classifyRejected,
                    leftPending >>

(***************************************************************************)
(* GenerateArticlesFromReportsUseCase.execute                              *)
(***************************************************************************)
\* the for-of loop moves to the next report, or execute returns the list
NextEligible(outcome) ==
    /\ composeOutcomes' = Append(composeOutcomes, outcome)
    /\ IF composeIndex < Len(reportsToProcess)
       THEN composeIndex' = composeIndex + 1 /\ composePc' = "agent"
       ELSE composeIndex' = composeIndex /\ composePc' = "returned"

\* findStoriesWithoutArticles resolves and an empty batch is an error
FindReportsToProcess_ThrowOnEmpty ==
    /\ taskPc = "compose"
    /\ composePc = "find"
    /\ LET found == FindStoriesWithoutArticles(store, articles,
                        COMPOSE_CLASSIFICATIONS, Locale.country,
                        COMPOSE_LIMIT)
       IN  /\ reportsToProcess' = found
           /\ IF found = <<>>
              THEN composePc' = "thrown" /\ composeIndex' = 0
              ELSE composePc' = "agent" /\ composeIndex' = 1
    /\ UNCHANGED << taskVars,
                    taskPc, store, ingestVars, classifyVars, articles,
                    article, generatedArticles, uuidCount, composeLog,
                    composeRejected >>

\* findStoriesWithoutArticles resolves: return [] at once on an empty batch
FindReportsToProcess ==
    /\ taskPc = "compose"
    /\ composePc = "find"
    /\ LET found == FindStoriesWithoutArticles(store, articles,
                        COMPOSE_CLASSIFICATIONS, Locale.country,
                        COMPOSE_LIMIT)
       IN  /\ reportsToProcess' = found
           /\ IF found = <<>>
              THEN composePc' = "returned" /\ composeIndex' = 0
              ELSE composePc' = "agent" /\ composeIndex' = 1
    /\ UNCHANGED << taskVars,
                    taskPc, store, ingestVars, classifyVars, articles,
                    article, generatedArticles, uuidCount, composeLog,
                    composeRejected >>

\* findStoriesWithoutArticles rejects and execute returns [] all the same
FindReportsToProcessThrows_Swallow ==
    /\ taskPc = "compose"
    /\ composePc = "find"
    /\ composePc' = "returned"
    /\ composeRejected' = "findStoriesWithoutArticles"
    /\ UNCHANGED << taskVars,
                    taskPc, store, ingestVars, classifyVars, articles,
                    reportsToProcess, composeIndex, article,
                    generatedArticles, uuidCount, composeLog >>

\* findStoriesWithoutArticles rejects: the outer catch logs and rethrows
FindReportsToProcessThrows ==
    /\ taskPc = "compose"
    /\ composePc = "find"
    /\ composePc' = "thrown"
    /\ composeRejected' = "findStoriesWithoutArticles"
    /\ UNCHANGED << taskVars,
                    taskPc, store, ingestVars, classifyVars, articles,
                    reportsToProcess, composeIndex, article,
                    generatedArticles, uuidCount, composeLog >>

\* the agent answers a result: the frames and the article are built
CompositionAgentRun ==
    /\ composePc = "agent"
    /\ \E answer \in ModelAnswers :
          LET compositionInput == [ report |-> reportsToProcess[composeIndex],
                                    targetCountry |-> Locale.country,
                                    targetLanguage |-> Locale.language ]
              compositionResult ==
                  ArticleCompositionAgentAdapter_run(compositionInput, answer)
          IN  /\ ~ compositionResult.isNull
              /\ composeAnswers' = Append(composeAnswers, answer)
              /\ article' = NewArticle(uuidCount + 1,
                                       reportsToProcess[composeIndex],
                                       compositionResult, Locale.country,
                                       Locale.language)
    /\ uuidCount' = uuidCount + 1
    /\ composeInputs' =
          Append(composeInputs, reportsToProcess[composeIndex].id)
    /\ composePc' = "create"
    /\ UNCHANGED << taskVars,
                    taskPc, store, ingestVars, classifyVars, articles,
                    reportsToProcess, composeIndex, generatedArticles,
                    composeOutcomes, createManyCalls, composeRejected >>

\* the agent answers null and the report is set aside for good
CompositionAgentReturnsNull_GiveUp ==
    /\ composePc = "agent"
    /\ \E answer \in ModelAnswers :
          LET compositionInput == [ report |-> reportsToProcess[composeIndex],
                                    targetCountry |-> Locale.country,
                                    targetLanguage |-> Locale.language ]
          IN  /\ ArticleCompositionAgentAdapter_run(compositionInput,
                                                    answer).isNull
              /\ composeAnswers' = Append(composeAnswers, answer)
    /\ composeInputs' =
          Append(composeInputs, reportsToProcess[composeIndex].id)
    /\ store' = [ i \in 1..Len(store) |->
                    IF store[i].id = reportsToProcess[composeIndex].id
                    THEN [ store[i] EXCEPT !.deduplicationState = "DUPLICATE" ]
                    ELSE store[i] ]
    /\ NextEligible("null")
    /\ UNCHANGED << taskVars,
                    taskPc, ingestVars, classifyVars, articles,
                    reportsToProcess, article, generatedArticles, uuidCount,
                    createManyCalls, composeRejected >>

\* the agent answers null: warn and continue
CompositionAgentReturnsNull ==
    /\ composePc = "agent"
    /\ \E answer \in ModelAnswers :
          LET compositionInput == [ report |-> reportsToProcess[composeIndex],
                                    targetCountry |-> Locale.country,
                                    targetLanguage |-> Locale.language ]
          IN  /\ ArticleCompositionAgentAdapter_run(compositionInput,
                                                    answer).isNull
              /\ composeAnswers' = Append(composeAnswers, answer)
    /\ composeInputs' =
          Append(composeInputs, reportsToProcess[composeIndex].id)
    /\ NextEligible("null")
    /\ UNCHANGED << taskVars,
                    taskPc, store, ingestVars, classifyVars, articles,
                    reportsToProcess, article, generatedArticles, uuidCount,
                    createManyCalls, composeRejected >>

\* the agent call rejects: the inner catch logs it
CompositionAgentThrows ==
    /\ composePc = "agent"
    /\ composeAnswers' = Append(composeAnswers, PortThrew)
    /\ composeInputs' =
          Append(composeInputs, reportsToProcess[composeIndex].id)
    /\ NextEligible("agentThrew")
    /\ UNCHANGED << taskVars,
                    taskPc, store, ingestVars, classifyVars, articles,
                    reportsToProcess, article, generatedArticles, uuidCount,
                    createManyCalls, composeRejected >>

\* createMany rejects and the article is returned all the same
SaveArticleThrows_Returned ==
    /\ composePc = "create"
    /\ createManyCalls' = Append(createManyCalls, article)
    /\ generatedArticles' = Append(generatedArticles, article)
    /\ article' = NoArticle
    /\ NextEligible("createThrew")
    /\ UNCHANGED << taskVars,
                    taskPc, store, ingestVars, classifyVars, articles,
                    reportsToProcess, uuidCount, composeInputs,
                    composeAnswers, composeRejected >>

\* createMany rejects: the inner catch logs it, nothing joins the result
SaveArticleThrows ==
    /\ composePc = "create"
    /\ createManyCalls' = Append(createManyCalls, article)
    /\ article' = NoArticle
    /\ NextEligible("createThrew")
    /\ UNCHANGED << taskVars,
                    taskPc, store, ingestVars, classifyVars, articles,
                    reportsToProcess, generatedArticles, uuidCount,
                    composeInputs, composeAnswers, composeRejected >>

\* createMany resolves: the article joins the result
SaveArticle ==
    /\ composePc = "create"
    /\ articles' = CreateMany(articles, <<article>>)
    /\ createManyCalls' = Append(createManyCalls, article)
    /\ generatedArticles' = Append(generatedArticles, article)
    /\ article' = NoArticle
    /\ NextEligible("composed")
    /\ UNCHANGED << taskVars, taskPc, store, ingestVars, classifyVars,
                    reportsToProcess, uuidCount, composeInputs,
                    composeAnswers, composeRejected >>

(***************************************************************************)
(* ReportPipelineTask.execute: ingest, then classify                       *)
(***************************************************************************)
\* step 1 resolved: the ingested reports are dropped, step 2 starts
StartClassification ==
    /\ taskPc = "ingest"
    /\ ingestPc = "returned"
    /\ taskPc' = "classify"
    /\ classifyPc' = "find"
    /\ ingestPc' = "count"
    /\ todayReportCount' = 0
    /\ thresholds' = [maxReportsPerRun |-> 0, minArticles |-> 0]
    /\ existingSourceReferences' = {}
    /\ newsStories' = <<>>
    /\ articleFilteredReports' = <<>>
    /\ newNewsReports' = <<>>
    /\ prioritizedReports' = <<>>
    /\ index' = 0
    /\ report' = NoReport
    /\ digestedReports' = <<>>
    /\ ingestError' = "none"
    /\ rejectedCall' = "none"
    /\ agentInputs' = <<>>
    /\ outcomes' = <<>>
    /\ persisted' = <<>>
    /\ UNCHANGED << taskVars, store, composeVars, reportsToReview, reviewIndex,
                    result, successfulClassifications, failedClassifications,
                    classifyLog, classifyRejected, leftPending >>

\* step 2 resolved
ClassificationDone ==
    /\ taskPc = "classify"
    /\ classifyPc = "returned"
    /\ taskPc' = "done"
    /\ UNCHANGED << taskVars, store, ingestVars, classifyVars, composeVars >>

\* a use case rejected: the task logs and rethrows
PipelineRethrow ==
    /\ \/ taskPc = "ingest" /\ ingestPc = "thrown"
       \/ taskPc = "classify" /\ classifyPc = "thrown"
    /\ taskPc' = "rejected"
    /\ UNCHANGED << taskVars, store, ingestVars, classifyVars, composeVars >>

Next ==
    \/ CountByDateRange
    \/ CountByDateRangeThrows
    \/ GetAllSourceReferences
    \/ GetAllSourceReferencesThrows
    \/ FetchNews
    \/ FetchNewsThrows
    \/ IngestionAgentRun
    \/ IngestionAgentReturnsNull
    \/ IngestionAgentThrows
    \/ ReportConstructionThrows
    \/ CreateReport
    \/ CreateReportThrows
    \/ StartClassification
    \/ FindReportsToReview
    \/ FindReportsToReviewThrows
    \/ ClassificationAgentRun
    \/ ClassificationAgentReturnsNull
    \/ ClassificationAgentThrows
    \/ UpdateReport
    \/ UpdateReportThrows
    \/ ClassificationDone
    \/ PipelineRethrow

Spec == Init /\ [][Next]_vars

(***************************************************************************)
(* The classification step of successive pipeline runs                     *)
(***************************************************************************)
ClassifyRunsInit ==
    /\ taskPc = "classify"
    /\ store \in ClassifyStores
    /\ IngestInit
    /\ classifyPc = "find"
    /\ ClassifyInit
    /\ leftPending = {}
    /\ composePc = "idle"
    /\ articles = <<>>
    /\ uuidCount = 0
    /\ ComposeInit
    /\ TasksInit

\* the positions of the batch whose processing failed
FailedPositions ==
    { k \in 1..Len(classifyOutcomes) : classifyOutcomes[k] # "classified" }

\* the schedule fires again: execute starts over with fresh locals
ScheduleClassification ==
    /\ taskPc = "classify"
    /\ classifyPc \in {"returned", "thrown"}
    /\ classifyPc' = "find"
    /\ reportsToReview' = <<>>
    /\ reviewIndex' = 0
    /\ result' = UNDEFINED
    /\ successfulClassifications' = 0
    /\ failedClassifications' = 0
    /\ classifyInputs' = <<>>
    /\ classifyOutcomes' = <<>>
    /\ updateCalls' = <<>>
    /\ classifyRejected' = "none"
    /\ leftPending' =
          IF classifyPc = "thrown"
          THEN leftPending
          ELSE { reportsToReview[k].id : k \in FailedPositions }
    /\ UNCHANGED << taskVars, taskPc, store, ingestVars, composeVars >>

NextClassify ==
    \/ FindReportsToReview
    \/ FindReportsToReviewThrows
    \/ ClassificationAgentRun
    \/ ClassificationAgentReturnsNull
    \/ ClassificationAgentThrows
    \/ UpdateReport
    \/ UpdateReportThrows
    \/ ScheduleClassification

SpecClassify == ClassifyRunsInit /\ [][NextClassify]_vars

(***************************************************************************)
(* Retries: successive classification runs over a backlog.  The calls can  *)
(* fail for the first MaxFlaky reports and for those beyond the first      *)
(* batch, the agent answers null for a garbled report and files every      *)
(* other report as NICHE.  The calls return, the schedule keeps firing,    *)
(* and a call that can succeed and is made again and again succeeds in     *)
(* the end.                                                                *)
(***************************************************************************)
Flaky(r) == r.id <= MaxFlaky \/ r.id > CLASSIFY_LIMIT

RetryInit ==
    /\ taskPc = "classify"
    /\ store \in RetryStores
    /\ IngestInit
    /\ classifyPc = "find"
    /\ ClassifyInit
    /\ leftPending = {}
    /\ composePc = "idle"
    /\ articles = <<>>
    /\ uuidCount = 0
    /\ ComposeInit
    /\ TasksInit

RetryAgentRun ==
    /\ classifyPc = "agent"
    /\ ~ Unclassifiable(reportsToReview[reviewIndex])
    /\ ClassificationAgentRun
    /\ result' = "NICHE"

RetryAgentReturnsNull ==
    /\ classifyPc = "agent"
    /\ \/ Flaky(reportsToReview[reviewIndex])
       \/ Unclassifiable(reportsToReview[reviewIndex])
    /\ ClassificationAgentReturnsNull

RetryAgentThrows ==
    /\ classifyPc = "agent"
    /\ Flaky(reportsToReview[reviewIndex])
    /\ ClassificationAgentThrows

RetryUpdateThrows ==
    /\ classifyPc = "update"
    /\ Flaky(reportsToReview[reviewIndex])
    /\ UpdateReportThrows

NextRetry ==
    \/ FindReportsToReview
    \/ FindReportsToReviewThrows
    \/ RetryAgentRun
    \/ RetryAgentReturnsNull
    \/ RetryAgentThrows
    \/ UpdateReport
    \/ RetryUpdateThrows
    \/ ScheduleClassification

SpecRetry ==
    /\ RetryInit
    /\ [][NextRetry]_vars
    /\ WF_vars(NextRetry)
    /\ SF_vars(FindReportsToReview)
    /\ SF_vars(RetryAgentRun)
    /\ SF_vars(UpdateReport)

(***************************************************************************)
(* The composition step of a pipeline run, for one locale                  *)
(***************************************************************************)
ComposeRunInit ==
    /\ taskPc = "compose"
    /\ store \in ComposeStores
    /\ IngestInit
    /\ classifyPc = "idle"
    /\ ClassifyInit
    /\ leftPending = {}
    /\ composePc = "find"
    /\ articles = <<>>
    /\ uuidCount = 0
    /\ ComposeInit
    /\ TasksInit

NextCompose ==
    \/ FindReportsToProcess
    \/ FindReportsToProcessThrows
    \/ CompositionAgentRun
    \/ CompositionAgentReturnsNull
    \/ CompositionAgentThrows
    \/ SaveArticle
    \/ SaveArticleThrows

SpecCompose == ComposeRunInit /\ [][NextCompose]_vars

(***************************************************************************)
(* ReportPipelineTask.execute for several locales, run after run: the      *)
(* per-locale calls of step 1 run concurrently, then the one               *)
(* classification pass, then the per-locale calls of step 3 concurrently.  *)
(* Steps 1 to 6 of an ingestion call are taken as one step; the provider   *)
(* returns all the stories it has for the locale.                          *)
(***************************************************************************)
LocaleIndexes == 1..Len(TaskConfigs)

\* what the news provider has per configured locale: two stories for the
\* first, the less covered one first, and one story for the second
NewsProvider ==
    << << Candidate(1001, 9, 3), Candidate(1011, 10, 4) >>,
       << Candidate(2001, 9, 3) >> >>

\* what fetchNews returns for the l-th locale
StoriesOf(l) == NewsProvider[l]

\* the stored reports of one country
ReportsOf(reports, country) ==
    LET ofCountry(r) == r.country = country
    IN  SelectSeq(reports, ofCountry)

\* what the ingestion agent answers for a story when it answers
DigestOf(newsReport) ==
    [ angles |-> [ i \in 1..(1 + (Len(newsReport.articles) % 2)) |->
                      <<"angle", i>> ],
      categories |-> <<"WORLD">>,
      core |-> "core", background |-> "background",
      wellFormed |-> TRUE ]

\* randomUUID gives every report the same id
ReportIdOf_Same(newsReport) == 1

\* the id randomUUID gives the report built for a story
ReportIdOf(newsReport) == newsReport.articles[1]

\* a candidate whose turn is over is put back at the head of the loop
NextIngestTask_Requeue(t) ==
    [ t EXCEPT !.pc = "agent", !.report = NoReport ]

\* the for-of loop of an ingestion call moves on, or the call returns
NextIngestTask(t) ==
    IF t.index < Len(t.prioritizedReports)
    THEN [ t EXCEPT !.pc = "agent", !.index = t.index + 1,
                    !.report = NoReport ]
    ELSE [ NoIngestTask EXCEPT !.pc = "returned" ]

\* the for-of loop of a composition call moves on, or the call returns
NextComposeTask(t) ==
    IF t.index < Len(t.reportsToProcess)
    THEN [ t EXCEPT !.pc = "agent", !.index = t.index + 1,
                    !.article = NoArticle ]
    ELSE [ NoComposeTask EXCEPT !.pc = "returned" ]

\* the calls of a step are awaited one by one to the end and a rejection
\* is dropped, as with Promise.allSettled
PromiseAllRejects_Settled(step, l) ==
    UNCHANGED << taskPc, taskError >>

\* Promise.all rejects with the first rejection if execute still awaits
\* the step; the catch of execute logs and rethrows
PromiseAllRejects(step, l) ==
    IF taskPc = step
    THEN taskPc' = "rejected" /\ taskError' = << step, l >>
    ELSE UNCHANGED << taskPc, taskError >>

\* steps 1 to 6 of the ingestion call of locale l resolve
IngestTaskIntake(l) ==
    /\ ingestTasks[l].pc = "intake"
    /\ LET country == TaskConfigs[l].country
           counted == Len(ReportsOf(store, country))
           limits == getDynamicThresholds(counted)
           existing == AllSourceReferences(ReportsOf(store, country))
           selected ==
               Prioritize(
                   FilterBySourceReferences(
                       FilterByArticleCount(StoriesOf(l), limits.minArticles),
                       existing),
                   limits.maxReportsPerRun)
       IN  ingestTasks' =
              [ ingestTasks EXCEPT ![l] =
                  IF selected = <<>>
                  THEN [ NoIngestTask EXCEPT !.pc = "returned" ]
                  ELSE [ pc |-> "agent", prioritizedReports |-> selected,
                         index |-> 1, report |-> NoReport ] ]
    /\ UNCHANGED << taskPc, store, ingestVars, classifyVars, composeVars,
                    composeTasks, taskError, secondRun >>

\* one of the calls of steps 1 to 3 rejects: the ingestion call rethrows
IngestTaskIntakeThrows(l) ==
    /\ ingestTasks[l].pc = "intake"
    /\ ingestTasks' =
          [ ingestTasks EXCEPT ![l] = [ NoIngestTask EXCEPT !.pc = "thrown" ] ]
    /\ PromiseAllRejects("ingest", l)
    /\ UNCHANGED << store, ingestVars, classifyVars, composeVars,
                    composeTasks, secondRun >>

\* step 7.1 of the ingestion call of locale l: the report is built
IngestTaskAgentRun(l) ==
    /\ ingestTasks[l].pc = "agent"
    /\ LET t == ingestTasks[l]
           newsReport == t.prioritizedReports[t.index]
       IN  ingestTasks' =
              [ ingestTasks EXCEPT ![l] =
                  [ t EXCEPT !.pc = "create",
                             !.report =
                                 NewReport(ReportIdOf(newsReport),
                                           DigestOf(newsReport), newsReport,
                                           TaskConfigs[l].country) ] ]
    /\ UNCHANGED << taskPc, store, ingestVars, classifyVars, composeVars,
                    composeTasks, taskError, secondRun >>

\* step 7.1: the agent answers null or the call rejects: next candidate
IngestTaskAgentFails(l) ==
    /\ ingestTasks[l].pc = "agent"
    /\ ingestTasks' =
          [ ingestTasks EXCEPT ![l] = NextIngestTask(ingestTasks[l]) ]
    /\ UNCHANGED << taskPc, store, ingestVars, classifyVars, composeVars,
                    composeTasks, taskError, secondRun >>

\* step 7.2: create resolves and the store holds the new report alone
IngestTaskCreate_Replace(l) ==
    /\ ingestTasks[l].pc = "create"
    /\ store' = << ingestTasks[l].report >>
    /\ ingestTasks' =
          [ ingestTasks EXCEPT ![l] = NextIngestTask(ingestTasks[l]) ]
    /\ UNCHANGED << taskPc, ingestVars, classifyVars, composeVars,
                    composeTasks, taskError, secondRun >>

\* step 7.2: create resolves
IngestTaskCreate(l) ==
    /\ ingestTasks[l].pc = "create"
    /\ store' = Append(store, ingestTasks[l].report)
    /\ ingestTasks' =
          [ ingestTasks EXCEPT ![l] = NextIngestTask(ingestTasks[l]) ]
    /\ UNCHANGED << taskPc, ingestVars, classifyVars, composeVars,
                    composeTasks, taskError, secondRun >>

\* step 7.2: create rejects: the inner catch logs it
IngestTaskCreateThrows(l) ==
    /\ ingestTasks[l].pc = "create"
    /\ ingestTasks' =
          [ ingestTasks EXCEPT ![l] = NextIngestTask(ingestTasks[l]) ]
    /\ UNCHANGED << taskPc, store, ingestVars, classifyVars, composeVars,
                    composeTasks, taskError, secondRun >>

\* step 2 starts as soon as one ingestion call has returned
AllIngested_Any ==
    /\ taskPc = "ingest"
    /\ \E l \in LocaleIndexes : ingestTasks[l].pc = "returned"
    /\ taskPc' = "classify"
    /\ classifyPc' = "find"
    /\ UNCHANGED << store, ingestVars, reportsToReview, reviewIndex, result,
                    successfulClassifications, failedClassifications,
                    classifyLog, classifyRejected, leftPending, composeVars,
                    taskVars >>

\* the Promise.all of step 1 resolves: step 2 calls classifyReports.execute
AllIngested ==
    /\ taskPc = "ingest"
    /\ \A l \in LocaleIndexes : ingestTasks[l].pc = "returned"
    /\ taskPc' = "classify"
    /\ classifyPc' = "find"
    /\ UNCHANGED << store, ingestVars, reportsToReview, reviewIndex, result,
                    successfulClassifications, failedClassifications,
                    classifyLog, classifyRejected, leftPending, composeVars,
                    taskVars >>

\* classifyReports.execute rejects: the catch of execute logs and rethrows
ClassificationRejects ==
    /\ taskPc = "classify"
    /\ classifyPc = "thrown"
    /\ taskPc' = "rejected"
    /\ taskError' = << "classify", 0 >>
    /\ UNCHANGED << store, ingestVars, classifyVars, composeVars,
                    ingestTasks, composeTasks, secondRun >>

\* step 2 resolves: step 3 starts one composition call per locale
ClassificationResolves ==
    /\ taskPc = "classify"
    /\ classifyPc = "returned"
    /\ taskPc' = "compose"
    /\ composeTasks' =
          [ l \in LocaleIndexes |-> [ NoComposeTask EXCEPT !.pc = "find" ] ]
    /\ UNCHANGED << store, ingestVars, classifyVars, composeVars,
                    ingestTasks, taskError, secondRun >>

\* every composition call queries the country of the first locale
ComposeTaskFind_SameCountry(l) ==
    /\ composeTasks[l].pc = "find"
    /\ LET found == FindStoriesWithoutArticles(store, articles,
                        COMPOSE_CLASSIFICATIONS, TaskConfigs[1].country,
                        COMPOSE_LIMIT)
       IN  composeTasks' =
              [ composeTasks EXCEPT ![l] =
                  IF found = <<>>
                  THEN [ NoComposeTask EXCEPT !.pc = "returned" ]
                  ELSE [ pc |-> "agent", reportsToProcess |-> found,
                         index |-> 1, article |-> NoArticle ] ]
    /\ UNCHANGED << taskPc, store, ingestVars, classifyVars, composeVars,
                    ingestTasks, taskError, secondRun >>

\* findStoriesWithoutArticles of the composition call of locale l resolves
ComposeTaskFind(l) ==
    /\ composeTasks[l].pc = "find"
    /\ LET found == FindStoriesWithoutArticles(store, articles,
                        COMPOSE_CLASSIFICATIONS, TaskConfigs[l].country,
                        COMPOSE_LIMIT)
       IN  composeTasks' =
              [ composeTasks EXCEPT ![l] =
                  IF found = <<>>
                  THEN [ NoComposeTask EXCEPT !.pc = "returned" ]
                  ELSE [ pc |-> "agent", reportsToProcess |-> found,
                         index |-> 1, article |-> NoArticle ] ]
    /\ UNCHANGED << taskPc, store, ingestVars, classifyVars, composeVars,
                    ingestTasks, taskError, secondRun >>

\* findStoriesWithoutArticles rejects: the composition call rethrows
ComposeTaskFindThrows(l) ==
    /\ composeTasks[l].pc = "find"
    /\ composeTasks' =
          [ composeTasks EXCEPT ![l] =
              [ NoComposeTask EXCEPT !.pc = "thrown" ] ]
    /\ PromiseAllRejects("compose", l)
    /\ UNCHANGED << store, ingestVars, classifyVars, composeVars,
                    ingestTasks, secondRun >>

\* the composition agent answers a result: the article is built
ComposeTaskAgentRun(l) ==
    /\ composeTasks[l].pc = "agent"
    /\ \E answer \in ModelAnswers :
          LET t == composeTasks[l]
              r == t.reportsToProcess[t.index]
              compositionInput ==
                  [ report |-> r,
                    targetCountry |-> TaskConfigs[l].country,
                    targetLanguage |-> TaskConfigs[l].language ]
              compositionResult ==
                  ArticleCompositionAgentAdapter_run(compositionInput, answer)
          IN  /\ ~ compositionResult.isNull
              /\ composeTasks' =
                    [ composeTasks EXCEPT ![l] =
                        [ t EXCEPT !.pc = "create",
                                   !.article =
                                       NewArticle(<< l, r.id >>, r,
                                                  compositionResult,
                                                  TaskConfigs[l].country,
                                                  TaskConfigs[l].language) ] ]
    /\ UNCHANGED << taskPc, store, ingestVars, classifyVars, composeVars,
                    ingestTasks, taskError, secondRun >>

\* the composition agent answers null or the call rejects: next report
ComposeTaskAgentFails(l) ==
    /\ composeTasks[l].pc = "agent"
    /\ composeTasks' =
          [ composeTasks EXCEPT ![l] = NextComposeTask(composeTasks[l]) ]
    /\ UNCHANGED << taskPc, store, ingestVars, classifyVars, composeVars,
                    ingestTasks, taskError, secondRun >>

\* createMany resolves
ComposeTaskCreate(l) ==
    /\ composeTasks[l].pc = "create"
    /\ articles' = CreateMany(articles, << composeTasks[l].article >>)
    /\ composeTasks' =
          [ composeTasks EXCEPT ![l] = NextComposeTask(composeTasks[l]) ]
    /\ UNCHANGED << taskPc, store, ingestVars, classifyVars, composeLocals,
                    ingestTasks, taskError, secondRun >>

\* createMany rejects: the inner catch logs it
ComposeTaskCreateThrows(l) ==
    /\ composeTasks[l].pc = "create"
    /\ composeTasks' =
          [ composeTasks EXCEPT ![l] = NextComposeTask(composeTasks[l]) ]
    /\ UNCHANGED << taskPc, store, ingestVars, classifyVars, composeVars,
                    ingestTasks, taskError, secondRun >>

\* the Promise.all of step 3 resolves: execute returns
AllComposed ==
    /\ taskPc = "compose"
    /\ \A l \in LocaleIndexes : composeTasks[l].pc = "returned"
    /\ taskPc' = "done"
    /\ UNCHANGED << store, ingestVars, classifyVars, composeVars, taskVars >>

\* every call the run started has settled
RunSettled ==
    /\ taskPc \in {"done", "rejected"}
    /\ \A l \in LocaleIndexes :
          /\ ingestTasks[l].pc \in {"returned", "thrown"}
          /\ composeTasks[l].pc \in {"idle", "returned", "thrown"}

\* the schedule fires after the run is over: execute starts step 1 again
SchedulePipeline ==
    /\ RunSettled
    /\ taskPc' = "ingest"
    /\ ingestTasks' =
          [ l \in LocaleIndexes |-> [ NoIngestTask EXCEPT !.pc = "intake" ] ]
    /\ composeTasks' = [ l \in LocaleIndexes |-> NoComposeTask ]
    /\ taskError' = "none"
    /\ classifyPc' = "idle"
    /\ reportsToReview' = <<>>
    /\ reviewIndex' = 0
    /\ result' = UNDEFINED
    /\ successfulClassifications' = 0
    /\ failedClassifications' = 0
    /\ classifyInputs' = <<>>
    /\ classifyOutcomes' = <<>>
    /\ updateCalls' = <<>>
    /\ classifyRejected' = "none"
    /\ UNCHANGED << store, ingestVars, leftPending, composeVars, secondRun >>

PipelineInit ==
    /\ taskPc = "ingest"
    /\ store = <<>>
    /\ IngestInit
    /\ classifyPc = "idle"
    /\ ClassifyInit
    /\ leftPending = {}
    /\ composePc = "idle"
    /\ articles = <<>>
    /\ uuidCount = 0
    /\ ComposeInit
    /\ ingestTasks =
          [ l \in LocaleIndexes |-> [ NoIngestTask EXCEPT !.pc = "intake" ] ]
    /\ composeTasks = [ l \in LocaleIndexes |-> NoComposeTask ]
    /\ taskError = "none"
    /\ secondRun = NoSecondRun

NextPipeline ==
    \/ \E l \in LocaleIndexes : IngestTaskIntake(l)
    \/ \E l \in LocaleIndexes : IngestTaskIntakeThrows(l)
    \/ \E l \in LocaleIndexes : IngestTaskAgentRun(l)
    \/ \E l \in LocaleIndexes : IngestTaskAgentFails(l)
    \/ \E l \in LocaleIndexes : IngestTaskCreate(l)
    \/ \E l \in LocaleIndexes : IngestTaskCreateThrows(l)
    \/ AllIngested
    \/ FindReportsToReview
    \/ FindReportsToReviewThrows
    \/ ClassificationAgentRun
    \/ ClassificationAgentReturnsNull
    \/ ClassificationAgentThrows
    \/ UpdateReport
    \/ UpdateReportThrows
    \/ ClassificationRejects
    \/ ClassificationResolves
    \/ \E l \in LocaleIndexes : ComposeTaskFind(l)
    \/ \E l \in LocaleIndexes : ComposeTaskFindThrows(l)
    \/ \E l \in LocaleIndexes : ComposeTaskAgentRun(l)
    \/ \E l \in LocaleIndexes : ComposeTaskAgentFails(l)
    \/ \E l \in LocaleIndexes : ComposeTaskCreate(l)
    \/ \E l \in LocaleIndexes : ComposeTaskCreateThrows(l)
    \/ AllComposed
    \/ SchedulePipeline

SpecPipeline == PipelineInit /\ [][NextPipeline]_vars

\* the pipeline when every call that is awaited returns or throws and the
\* schedule keeps firing: a step that can be taken is taken in the end
SpecPipelineFair == SpecPipeline /\ WF_vars(NextPipeline)

(***************************************************************************)
(* The orchestrators triggered on their own, one invocation after another: *)
(* classifyReports.execute or generateArticlesFromReports.execute for the  *)
(* one locale, in any order, each started when the one before has settled. *)
(***************************************************************************)
OrchestratorStores == ClassifyStores \cup ComposeStores

OrchestratorsInit ==
    /\ taskPc = "idle"
    /\ store \in OrchestratorStores
    /\ IngestInit
    /\ classifyPc = "idle"
    /\ ClassifyInit
    /\ leftPending = {}
    /\ composePc = "idle"
    /\ articles = <<>>
    /\ uuidCount = 0
    /\ ComposeInit
    /\ TasksInit

\* no invocation is running
OrchestratorSettled ==
    \/ taskPc = "idle"
    \/ taskPc = "classify" /\ classifyPc \in {"returned", "thrown"}
    \/ taskPc = "compose" /\ composePc \in {"returned", "thrown"}

\* the locals of both use cases as they are before an invocation
FreshLocals ==
    /\ reportsToReview' = <<>>
    /\ reviewIndex' = 0
    /\ result' = UNDEFINED
    /\ successfulClassifications' = 0
    /\ failedClassifications' = 0
    /\ classifyInputs' = <<>>
    /\ classifyOutcomes' = <<>>
    /\ updateCalls' = <<>>
    /\ classifyRejected' = "none"
    /\ reportsToProcess' = <<>>
    /\ composeIndex' = 0
    /\ article' = NoArticle
    /\ generatedArticles' = <<>>
    /\ composeInputs' = <<>>
    /\ composeAnswers' = <<>>
    /\ composeOutcomes' = <<>>
    /\ createManyCalls' = <<>>
    /\ composeRejected' = "none"

\* classifyReports.execute is called
TriggerClassification ==
    /\ OrchestratorSettled
    /\ taskPc' = "classify"
    /\ classifyPc' = "find"
    /\ composePc' = "idle"
    /\ FreshLocals
    /\ UNCHANGED << store, ingestVars, leftPending, articles, uuidCount,
                    taskVars >>

\* generateArticlesFromReports.execute is called for the locale
TriggerComposition ==
    /\ OrchestratorSettled
    /\ uuidCount < MaxUuids
    /\ taskPc' = "compose"
    /\ composePc' = "find"
    /\ classifyPc' = "idle"
    /\ FreshLocals
    /\ UNCHANGED << store, ingestVars, leftPending, articles, uuidCount,
                    taskVars >>

NextOrchestrators ==
    \/ TriggerClassification
    \/ FindReportsToReview
    \/ FindReportsToReviewThrows
    \/ ClassificationAgentRun
    \/ ClassificationAgentReturnsNull
    \/ ClassificationAgentThrows
    \/ UpdateReport
    \/ UpdateReportThrows
    \/ TriggerComposition
    \/ FindReportsToProcess
    \/ FindReportsToProcessThrows
    \/ CompositionAgentRun
    \/ CompositionAgentReturnsNull
    \/ CompositionAgentThrows
    \/ SaveArticle
    \/ SaveArticleThrows

SpecOrchestrators == OrchestratorsInit /\ [][NextOrchestrators]_vars

(***************************************************************************)
(* Two overlapping pipeline runs, at their classification step: a second   *)
(* classifyReports.execute is started while the first is running, both     *)
(* read and write the same store; when both have settled the schedule      *)
(* fires runs one at a time.  The agent answers null for a garbled report. *)
(***************************************************************************)
OverlapStores ==
    ClassifyStores
       \cup { GarbledBacklog(CLASSIFY_LIMIT - k, CLASSIFY_LIMIT + 1) :
                 k \in 0..1 }

OverlapInit ==
    /\ taskPc = "classify"
    /\ store \in OverlapStores
    /\ IngestInit
    /\ classifyPc = "find"
    /\ ClassifyInit
    /\ leftPending = {}
    /\ composePc = "idle"
    /\ articles = <<>>
    /\ uuidCount = 0
    /\ ComposeInit
    /\ TasksInit

\* the first run: the agent answers a classification
OverlapAgentRun ==
    /\ classifyPc = "agent"
    /\ ~ Unclassifiable(reportsToReview[reviewIndex])
    /\ ClassificationAgentRun

\* the first run: the agent call rejects
OverlapAgentThrows ==
    /\ classifyPc = "agent"
    /\ ~ Unclassifiable(reportsToReview[reviewIndex])
    /\ ClassificationAgentThrows

\* the for-of loop of the second run moves on, or the run returns
NextOfSecondRun ==
    IF secondRun.index < Len(secondRun.reportsToReview)
    THEN [ secondRun EXCEPT !.pc = "agent", !.index = secondRun.index + 1,
                            !.result = UNDEFINED ]
    ELSE [ NoSecondRun EXCEPT !.pc = "returned",
                              !.updated = secondRun.updated ]

\* the ids the second run has had updated, once update(id) has resolved
SecondRunUpdated ==
    secondRun.updated
       \cup { secondRun.reportsToReview[secondRun.index].id }

\* the second run is started while the first one has not settled
SecondRunStarts ==
    /\ secondRun.pc = "idle"
    /\ classifyPc \in {"find", "agent", "update"}
    /\ leftPending = {}
    /\ secondRun' = [ NoSecondRun EXCEPT !.pc = "find" ]
    /\ UNCHANGED << taskPc, store, ingestVars, classifyVars, composeVars,
                    ingestTasks, composeTasks, taskError >>

\* findMany of the second run resolves
SecondRunFind ==
    /\ secondRun.pc = "find"
    /\ LET found == FindPendingClassification(store, CLASSIFY_LIMIT)
       IN  secondRun' =
              IF found = <<>>
              THEN [ NoSecondRun EXCEPT !.pc = "returned" ]
              ELSE [ pc |-> "agent", reportsToReview |-> found, index |-> 1,
                     result |-> UNDEFINED, updated |-> {} ]
    /\ UNCHANGED << taskPc, store, ingestVars, classifyVars, composeVars,
                    ingestTasks, composeTasks, taskError >>

\* findMany of the second run rejects: the run rethrows
SecondRunFindThrows ==
    /\ secondRun.pc = "find"
    /\ secondRun' = [ NoSecondRun EXCEPT !.pc = "thrown" ]
    /\ UNCHANGED << taskPc, store, ingestVars, classifyVars, composeVars,
                    ingestTasks, composeTasks, taskError >>

\* the agent answers the second run with a classification
SecondRunAgentRun ==
    /\ secondRun.pc = "agent"
    /\ ~ Unclassifiable(secondRun.reportsToReview[secondRun.index])
    /\ \E classification \in Tiers :
          secondRun' = [ secondRun EXCEPT !.pc = "update",
                                          !.result = classification ]
    /\ UNCHANGED << taskPc, store, ingestVars, classifyVars, composeVars,
                    ingestTasks, composeTasks, taskError >>

\* the agent answers the second run null, or the call rejects, and the
\* run writes the report back as PENDING
SecondRunAgentFails_Reopen ==
    /\ secondRun.pc = "agent"
    /\ store' =
          [ i \in 1..Len(store) |->
              IF store[i].id = secondRun.reportsToReview[secondRun.index].id
              THEN [ store[i] EXCEPT !.classificationState = "PENDING" ]
              ELSE store[i] ]
    /\ secondRun' = NextOfSecondRun
    /\ UNCHANGED << taskPc, ingestVars, classifyVars, composeVars,
                    ingestTasks, composeTasks, taskError >>

\* the agent answers the second run null, or the call rejects: the report
\* is left as it is
SecondRunAgentFails ==
    /\ secondRun.pc = "agent"
    /\ secondRun' = NextOfSecondRun
    /\ UNCHANGED << taskPc, store, ingestVars, classifyVars, composeVars,
                    ingestTasks, composeTasks, taskError >>

\* update of the second run resolves: whatever the report holds by now is
\* overwritten
SecondRunUpdate ==
    /\ secondRun.pc = "update"
    /\ store' =
          UpdateClassification(store,
              secondRun.reportsToReview[secondRun.index].id, secondRun.result)
    /\ secondRun' = [ NextOfSecondRun EXCEPT !.updated = SecondRunUpdated ]
    /\ UNCHANGED << taskPc, ingestVars, classifyVars, composeVars,
                    ingestTasks, composeTasks, taskError >>

\* update of the second run rejects
SecondRunUpdateThrows ==
    /\ secondRun.pc = "update"
    /\ secondRun' = NextOfSecondRun
    /\ UNCHANGED << taskPc, store, ingestVars, classifyVars, composeVars,
                    ingestTasks, composeTasks, taskError >>

\* the ids of the stored reports that are pending
PendingIds ==
    { store[i].id : i \in { k \in 1..Len(store) :
                               store[k].classificationState = "PENDING" } }

\* both runs have settled and the schedule fires: the next run starts
\* alone, with fresh locals
ScheduleAfterOverlap ==
    /\ taskPc = "classify"
    /\ classifyPc \in {"returned", "thrown"}
    /\ secondRun.pc \in {"returned", "thrown"}
    /\ classifyPc' = "find"
    /\ reportsToReview' = <<>>
    /\ reviewIndex' = 0
    /\ result' = UNDEFINED
    /\ successfulClassifications' = 0
    /\ failedClassifications' = 0
    /\ classifyInputs' = <<>>
    /\ classifyOutcomes' = <<>>
    /\ updateCalls' = <<>>
    /\ classifyRejected' = "none"
    /\ leftPending' = PendingIds
    /\ UNCHANGED << taskPc, store, ingestVars, composeVars, taskVars >>

NextOverlap ==
    \/ FindReportsToReview
    \/ FindReportsToReviewThrows
    \/ OverlapAgentRun
    \/ ClassificationAgentReturnsNull
    \/ OverlapAgentThrows
    \/ UpdateReport
    \/ UpdateReportThrows
    \/ SecondRunStarts
    \/ SecondRunFind
    \/ SecondRunFindThrows
    \/ SecondRunAgentRun
    \/ SecondRunAgentFails
    \/ SecondRunUpdate
    \/ SecondRunUpdateThrows
    \/ ScheduleAfterOverlap

SpecOverlap == OverlapInit /\ [][NextOverlap]_vars

(***************************************************************************)
(* Step 1 of a pipeline run, call by call: the ingestion calls of the      *)
(* configured locales run concurrently and every await of steps 1 to 3 of  *)
(* a call is a step of its own, so that reports created by one call can    *)
(* land between two reads of another.                                      *)
(***************************************************************************)
\* a report stored before the run, built from a story of eight articles
\* whose first source is `source`
EarlierReport(id, source, country) ==
    NewReport(id, DigestOf(Candidate(source, 8, 1)), Candidate(source, 8, 1),
              country)

\* k reports of one country stored before the run, with ids from `first` on
EarlierReports(first, k, country) ==
    [ i \in 1..k |-> EarlierReport(first + i - 1, 100 * (first + i - 1),
                                   country) ]

\* what is stored when the run starts: nothing; reports of both countries
\* that together reach the next quota band; a full band of one country;
\* reports of one country whose sources are those of a story of the other
LocaleStores ==
    { <<>>,
      EarlierReports(1, 3, TaskConfigs[1].country)
         \o EarlierReports(4, 2, TaskConfigs[2].country),
      EarlierReports(1, 5, TaskConfigs[1].country),
      EarlierReports(1, 5, TaskConfigs[2].country),
      << EarlierReport(1, 1001, TaskConfigs[2].country),
         EarlierReport(2, 2001, TaskConfigs[1].country) >>,
      << EarlierReport(1, 1011, TaskConfigs[1].country) >> }

LocalesInit ==
    /\ taskPc = "ingest"
    /\ store \in LocaleStores
    /\ IngestInit
    /\ classifyPc = "idle"
    /\ ClassifyInit
    /\ leftPending = {}
    /\ composePc = "idle"
    /\ articles = <<>>
    /\ uuidCount = 0
    /\ ComposeInit
    /\ ingestTasks = [ l \in LocaleIndexes |->
                         [ NoIngestTask EXCEPT !.pc = "count" ] ]
    /\ composeTasks = [ l \in LocaleIndexes |-> NoComposeTask ]
    /\ taskError = "none"
    /\ secondRun = NoSecondRun

\* countByDateRange counts the reports of every country
IngestTaskCount_AnyCountry(l) ==
    /\ ingestTasks[l].pc = "count"
    /\ ingestTasks' =
          [ ingestTasks EXCEPT ![l] =
              [ pc |-> "sources", prioritizedReports |-> <<>>, index |-> 0,
                report |-> NoReport,
                thresholds |-> getDynamicThresholds(Len(store)),
                existingSourceReferences |-> {} ] ]
    /\ UNCHANGED << taskPc, store, ingestVars, classifyVars, composeVars,
                    composeTasks, taskError, secondRun >>

\* step 1 of the call of locale l: countByDateRange(country, ..) resolves
\* and the thresholds are computed
IngestTaskCount(l) ==
    /\ ingestTasks[l].pc = "count"
    /\ ingestTasks' =
          [ ingestTasks EXCEPT ![l] =
              [ pc |-> "sources", prioritizedReports |-> <<>>, index |-> 0,
                report |-> NoReport,
                thresholds |->
                    getDynamicThresholds(
                        Len(ReportsOf(store, TaskConfigs[l].country))),
                existingSourceReferences |-> {} ] ]
    /\ UNCHANGED << taskPc, store, ingestVars, classifyVars, composeVars,
                    composeTasks, taskError, secondRun >>

\* step 2: getAllSourceReferences(country) resolves
IngestTaskSources(l) ==
    /\ ingestTasks[l].pc = "sources"
    /\ ingestTasks' =
          [ ingestTasks EXCEPT ![l] =
              [ ingestTasks[l] EXCEPT
                  !.pc = "fetch",
                  !.existingSourceReferences =
                      AllSourceReferences(
                          ReportsOf(store, TaskConfigs[l].country)) ] ]
    /\ UNCHANGED << taskPc, store, ingestVars, classifyVars, composeVars,
                    composeTasks, taskError, secondRun >>

\* what steps 4 to 6 select of the stories of locale l
SelectedOf(l, limits, existing) ==
    Prioritize(
        FilterBySourceReferences(
            FilterByArticleCount(StoriesOf(l), limits.minArticles), existing),
        limits.maxReportsPerRun)

\* step 3: fetchNews resolves; steps 4 to 6 follow without an await
IngestTaskFetch(l) ==
    /\ ingestTasks[l].pc = "fetch"
    /\ LET t == ingestTasks[l]
           selected == SelectedOf(l, t.thresholds, t.existingSourceReferences)
       IN  ingestTasks' =
              [ ingestTasks EXCEPT ![l] =
                  IF selected = <<>>
                  THEN [ NoIngestTask EXCEPT !.pc = "returned" ]
                  ELSE [ t EXCEPT !.pc = "agent",
                                  !.prioritizedReports = selected,
                                  !.index = 1 ] ]
    /\ UNCHANGED << taskPc, store, ingestVars, classifyVars, composeVars,
                    composeTasks, taskError, secondRun >>

\* the awaited call of step 1, 2 or 3 rejects: the ingestion call rethrows
IngestTaskCallThrows(l) ==
    /\ ingestTasks[l].pc \in {"count", "sources", "fetch"}
    /\ ingestTasks' =
          [ ingestTasks EXCEPT ![l] = [ NoIngestTask EXCEPT !.pc = "thrown" ] ]
    /\ PromiseAllRejects("ingest", l)
    /\ UNCHANGED << store, ingestVars, classifyVars, composeVars,
                    composeTasks, secondRun >>

NextLocales ==
    \E l \in LocaleIndexes :
       \/ IngestTaskCount(l)
       \/ IngestTaskSources(l)
       \/ IngestTaskFetch(l)
       \/ IngestTaskCallThrows(l)
       \/ IngestTaskAgentRun(l)
       \/ IngestTaskAgentFails(l)
       \/ IngestTaskCreate(l)
       \/ IngestTaskCreateThrows(l)

SpecLocales == LocalesInit /\ [][NextLocales]_vars

(***************************************************************************)
(* Composition over successive pipeline runs, for one locale: a            *)
(* composition call, then at every later run the classification pass and   *)
(* the next composition call.  The composition calls can fail for the      *)
(* first MaxFlaky reports and for those beyond the first batch; the model   *)
(* has no answer with as many frames as a crowded report has angles; the   *)
(* classification agent files every report as NICHE.  The calls return,    *)
(* the schedule keeps firing, and a call that can succeed and is made      *)
(* again and again succeeds in the end.                                    *)
(***************************************************************************)
\* a report with one angle more than the model ever answers frames for
CrowdedReport(id) ==
    NewReport(id, [angles |-> [ i \in 1..(MaxFrames + 1) |-> <<"n", i>> ],
                   categories |-> <<"WORLD">>,
                   core |-> "core", background |-> "background",
                   wellFormed |-> TRUE], Candidate(100 * id + 1, 8, 2),
              Locale.country)

\* the adapter answers null for the report whatever the model answers
Uncomposable(r) == Len(r.angles) > MaxFrames

\* n reports: the first p are crowded and were left PENDING by the
\* classification pass of this run, the others are filed as NICHE
CrowdedBacklog(p, n) ==
    [ id \in 1..n |-> IF id <= p THEN CrowdedReport(id)
                                 ELSE Classified(BacklogReport(id), "NICHE") ]

\* stores the composition call of a run can find: two publishable reports,
\* and one or two publishable reports after a full batch, or one less, of
\* crowded reports that are not classified yet
RecomposeStores ==
    { CrowdedBacklog(0, 2) }
       \cup { CrowdedBacklog(COMPOSE_LIMIT - k, COMPOSE_LIMIT + 1) :
                 k \in 0..1 }

FlakyToCompose(r) == r.id <= MaxFlaky \/ r.id > COMPOSE_LIMIT

RecomposeInit ==
    /\ taskPc = "compose"
    /\ store \in RecomposeStores
    /\ IngestInit
    /\ classifyPc = "idle"
    /\ ClassifyInit
    /\ leftPending = {}
    /\ composePc = "find"
    /\ articles = <<>>
    /\ uuidCount = 0
    /\ ComposeInit
    /\ TasksInit

\* the agent answers a result for a report it can compose
RecomposeAgentRun ==
    /\ composePc = "agent"
    /\ ~ Uncomposable(reportsToProcess[composeIndex])
    /\ CompositionAgentRun

\* the agent answers null: the model gave nothing for a report the calls
\* can fail for, or too few frames for a crowded one
RecomposeAgentReturnsNull ==
    /\ composePc = "agent"
    /\ \/ /\ Uncomposable(reportsToProcess[composeIndex])
          /\ composeAnswers' = Append(composeAnswers, ModelAnswer(MaxFrames))
       \/ /\ ~ Uncomposable(reportsToProcess[composeIndex])
          /\ FlakyToCompose(reportsToProcess[composeIndex])
          /\ composeAnswers' = Append(composeAnswers, NoAnswer)
    /\ CompositionAgentReturnsNull

RecomposeAgentThrows ==
    /\ composePc = "agent"
    /\ ~ Uncomposable(reportsToProcess[composeIndex])
    /\ FlakyToCompose(reportsToProcess[composeIndex])
    /\ CompositionAgentThrows

\* createMany rejects, as long as randomUUID has ids left for a new attempt
RecomposeSaveThrows ==
    /\ composePc = "create"
    /\ FlakyToCompose(reportsToProcess[composeIndex])
    /\ uuidCount < MaxUuids
    /\ SaveArticleThrows

\* the schedule fires: step 2 of the next run calls classifyReports.execute
NextRunClassifies ==
    /\ taskPc = "compose"
    /\ composePc \in {"returned", "thrown"}
    /\ taskPc' = "classify"
    /\ classifyPc' = "find"
    /\ composePc' = "idle"
    /\ FreshLocals
    /\ UNCHANGED << store, ingestVars, leftPending, articles, uuidCount,
                    taskVars >>

\* step 2 resolves: step 3 calls generateArticlesFromReports.execute
ClassifiedThenComposes ==
    /\ taskPc = "classify"
    /\ classifyPc = "returned"
    /\ taskPc' = "compose"
    /\ composePc' = "find"
    /\ UNCHANGED << store, ingestVars, classifyVars, articles,
                    reportsToProcess, composeIndex, article,
                    generatedArticles, uuidCount, composeLog,
                    composeRejected, taskVars >>

NextRecompose ==
    \/ FindReportsToProcess
    \/ FindReportsToProcessThrows
    \/ RecomposeAgentRun
    \/ RecomposeAgentReturnsNull
    \/ RecomposeAgentThrows
    \/ SaveArticle
    \/ RecomposeSaveThrows
    \/ NextRunClassifies
    \/ FindReportsToReview
    \/ RetryAgentRun
    \/ UpdateReport
    \/ ClassifiedThenComposes

SpecRecompose ==
    /\ RecomposeInit
    /\ [][NextRecompose]_vars
    /\ WF_vars(NextRecompose)
    /\ SF_vars(FindReportsToProcess)
    /\ SF_vars(RecomposeAgentRun)
    /\ SF_vars(SaveArticle)

(***************************************************************************)
(* Properties                                                              *)
(***************************************************************************)
\* the intake filter has run on a non-empty batch
PostFilter ==
    ingestPc \in {"agent", "create", "returned"} /\ newsStories # <<>>

\* the thresholds of this run have been computed
PostCount ==
    \/ ingestPc \in {"sources", "fetch", "agent", "create", "returned"}
    \/ ingestPc = "thrown" /\ rejectedCall # "countByDateRange"

CountRange == (0 - NegCount)..MaxCount

ArticleCount(newsReport) == Len(newsReport.articles)

\* position of a candidate in the batch the provider returned
ProviderPosition(newsReport) ==
    CHOOSE i \in 1..Len(newsStories) : newsStories[i] = newsReport

ReportFor(newsReport, reports) ==
    \E i \in 1..Len(reports) : reports[i].sourceReferences = newsReport.articles

\* C1: a selected candidate has a Report in the returned list iff the agent
\* answered a result and building and persisting the Report did not throw;
\* a null answer or a throw for one candidate neither stops the loop nor
\* makes execute throw.
C1_PerCandidateIsolation ==
    /\ \A k \in 1..Len(prioritizedReports) :
          ReportFor(prioritizedReports[k], digestedReports)
             <=> (k <= Len(outcomes) /\ outcomes[k] = "ingested")
    /\ Len(digestedReports) =
          Cardinality({ k \in 1..Len(outcomes) : outcomes[k] = "ingested" })
    /\ digestedReports = persisted
    /\ ingestPc = "returned" => Len(outcomes) = Len(prioritizedReports)
    /\ ingestPc = "thrown" => rejectedCall # "none" /\ outcomes = <<>>

\* three candidates, one of them seen, the agent throws on the second
\* survivor and the run returns the report of the first
C1_Witness ==
    /\ ingestPc = "returned"
    /\ Len(newsStories) = 3
    /\ Len(articleFilteredReports) = 3
    /\ Len(prioritizedReports) = 2
    /\ outcomes = <<"ingested", "agentThrew">>
    /\ Len(digestedReports) = 1

\* C2: when the count query, the seen-source query or the news fetch
\* rejects, execute rethrows that error, the ingestion agent is never called
\* and no Report is created.
C2_InfrastructureFailureRethrown ==
    rejectedCall # "none" =>
        /\ ingestPc = "thrown"
        /\ ingestError = rejectedCall
        /\ agentInputs = <<>>
        /\ persisted = <<>>
        /\ digestedReports = <<>>
        /\ taskPc \in {"ingest", "rejected"}

C2_Witness ==
    /\ rejectedCall = "fetchNews"
    /\ ingestError = "fetchNews"
    /\ taskPc = "rejected"

\* C3: the intake filter selects at most maxReportsPerRun candidates, each
\* with at least minArticles articles, so a run calls the agent and creates
\* Reports at most maxReportsPerRun (at most 3) times.
C3_IntakeBounded ==
    /\ Len(prioritizedReports) <= thresholds.maxReportsPerRun
    /\ \A k \in 1..Len(prioritizedReports) :
          ArticleCount(prioritizedReports[k]) >= thresholds.minArticles
    /\ Len(agentInputs) <= thresholds.maxReportsPerRun
    /\ Len(persisted) <= thresholds.maxReportsPerRun
    /\ thresholds.maxReportsPerRun <= 3

\* more candidates qualified than the run admitted, and all admitted ones
\* became Reports
C3_Witness ==
    /\ ingestPc = "returned"
    /\ Len(newNewsReports) > thresholds.maxReportsPerRun
    /\ Len(persisted) = thresholds.maxReportsPerRun

\* C4 as stated: the seen-source step drops a candidate iff all of its
\* source ids are already seen.
C4_DroppedIffAllSeen ==
    PostFilter =>
        \A k \in 1..Len(articleFilteredReports) :
            LET c == articleFilteredReports[k] IN
            (c \notin Range(newNewsReports))
               <=> (ArticleIds(c) \subseteq existingSourceReferences)

\* C4 amended: the seen-source step drops a candidate iff at least one of
\* its source ids is already seen; a candidate survives only when all of its
\* source ids are new.
C4_DroppedIffAnySeen ==
    PostFilter =>
        \A k \in 1..Len(articleFilteredReports) :
            LET c == articleFilteredReports[k] IN
            (c \notin Range(newNewsReports))
               <=> (ArticleIds(c) \cap existingSourceReferences # {})

\* a candidate with a new source id among seen ones was dropped
C4_Witness ==
    /\ PostFilter
    /\ \E k \in 1..Len(articleFilteredReports) :
          LET c == articleFilteredReports[k] IN
          /\ c \notin Range(newNewsReports)
          /\ ArticleIds(c) \cap existingSourceReferences # {}
          /\ ~ (ArticleIds(c) \subseteq existingSourceReferences)

\* C5: the selected candidates are the first maxReportsPerRun survivors in
\* order of decreasing article count, ties in provider order; no survivor
\* left out has more articles than a selected one; the agent is called on
\* the selected candidates in that order.
C5_PrioritizedOrder ==
    PostFilter =>
        /\ Len(prioritizedReports) =
              IF Len(newNewsReports) < thresholds.maxReportsPerRun
              THEN Len(newNewsReports) ELSE thresholds.maxReportsPerRun
        /\ Range(prioritizedReports) \subseteq Range(newNewsReports)
        /\ \A i, j \in 1..Len(prioritizedReports) :
              i < j =>
                 LET a == prioritizedReports[i]
                     b == prioritizedReports[j]
                 IN  \/ ArticleCount(a) > ArticleCount(b)
                     \/ /\ ArticleCount(a) = ArticleCount(b)
                        /\ ProviderPosition(a) < ProviderPosition(b)
        /\ \A a \in Range(prioritizedReports) :
              \A b \in Range(newNewsReports) \ Range(prioritizedReports) :
                 \/ ArticleCount(a) > ArticleCount(b)
                 \/ /\ ArticleCount(a) = ArticleCount(b)
                    /\ ProviderPosition(a) < ProviderPosition(b)
        /\ agentInputs = SubSeq(prioritizedReports, 1, Len(agentInputs))
        /\ ingestPc = "returned" => agentInputs = prioritizedReports

\* a batch the provider returned in increasing order, with a tie, was
\* reordered and handed to the agent
C5_Witness ==
    /\ ingestPc = "returned"
    /\ Len(prioritizedReports) = 3
    /\ agentInputs = prioritizedReports
    /\ ArticleCount(newsStories[1]) < ArticleCount(newsStories[3])
    /\ ArticleCount(prioritizedReports[2]) = ArticleCount(prioritizedReports[3])

\* the table of the admission controller
ThresholdTable(acceptedToday) ==
    LET remaining == DAILY_TARGET - acceptedToday IN
    CASE remaining <= 0 -> [minEvidence |-> 30, maxIntake |-> 1]
      [] remaining \in 1..2 -> [minEvidence |-> 22, maxIntake |-> 1]
      [] remaining \in 3..5 -> [minEvidence |-> 16, maxIntake |-> 1]
      [] remaining \in 6..9 -> [minEvidence |-> 12, maxIntake |-> 2]
      [] remaining >= 10 -> [minEvidence |-> 8, maxIntake |-> 3]

\* C6: for every accepted-today count, negative and above-target ones
\* included, the thresholds are the table's values for 14 - count.
C6_ThresholdTable ==
    PostCount =>
        /\ thresholds.minArticles = ThresholdTable(todayReportCount).minEvidence
        /\ thresholds.maxReportsPerRun =
              ThresholdTable(todayReportCount).maxIntake

C6_Witness ==
    /\ ingestPc = "sources"
    /\ todayReportCount < 0
    /\ thresholds = [maxReportsPerRun |-> 3, minArticles |-> 8]

\* C7: a run started at or above the daily target has thresholds 30 and 1:
\* it admits no candidate with fewer than 30 articles, it still admits one
\* when a candidate with 30 or more articles passes the seen-source check,
\* and it creates at most one Report.
C7_AtQuotaThrottle ==
    (PostCount /\ todayReportCount >= DAILY_TARGET) =>
        /\ thresholds = [maxReportsPerRun |-> 1, minArticles |-> 30]
        /\ \A k \in 1..Len(agentInputs) : ArticleCount(agentInputs[k]) >= 30
        /\ Len(persisted) <= 1
        /\ PostFilter =>
              ((\E k \in 1..Len(newsStories) :
                   /\ ArticleCount(newsStories[k]) >= 30
                   /\ ArticleIds(newsStories[k]) \cap existingSourceReferences = {})
                 <=> Len(prioritizedReports) = 1)

\* at quota the 25-article candidate was left out and the 32-article one
\* became a Report
C7_Witness ==
    /\ ingestPc = "returned"
    /\ todayReportCount = DAILY_TARGET
    /\ \E k \in 1..Len(newsStories) : ArticleCount(newsStories[k]) = 25
    /\ Len(persisted) = 1
    /\ Len(persisted[1].sourceReferences) = 32

\* C8: for counts a <= b the thresholds of b admit no more candidates and
\* demand no fewer articles than those of a.
C8_ThresholdsMonotonic ==
    PostCount =>
        \A a \in CountRange :
            /\ a <= todayReportCount =>
                  /\ thresholds.maxReportsPerRun
                        <= getDynamicThresholds(a).maxReportsPerRun
                  /\ thresholds.minArticles
                        >= getDynamicThresholds(a).minArticles
            /\ a >= todayReportCount =>
                  /\ thresholds.maxReportsPerRun
                        >= getDynamicThresholds(a).maxReportsPerRun
                  /\ thresholds.minArticles
                        <= getDynamicThresholds(a).minArticles

\* the thresholds of this run are strictly tighter than those of a smaller
\* count and strictly looser than those of a larger one
C8_Witness ==
    /\ ingestPc = "sources"
    /\ \E a, b \in CountRange :
          /\ a < todayReportCount /\ todayReportCount < b
          /\ getDynamicThresholds(a).maxReportsPerRun
                > thresholds.maxReportsPerRun
          /\ getDynamicThresholds(b).minArticles > thresholds.minArticles

\* C9: every Report the ingestion creates is created with both states
\* PENDING and with tier and traits unset, whatever the agent answered.
C9_CreatedPending ==
    \A k \in 1..Len(persisted) :
        /\ persisted[k].deduplicationState = "PENDING"
        /\ persisted[k].classificationState = "PENDING"
        /\ persisted[k].tier = UNDEFINED
        /\ persisted[k].traits = UNDEFINED
        /\ \E i \in 1..Len(store) : store[i] = persisted[k]

\* two Reports created from different agent answers
C9_Witness ==
    /\ Len(persisted) = 2
    /\ persisted[1].angles # persisted[2].angles

\* C10 as stated: no stored report is CLASSIFIED with tier or traits unset,
\* and none is PENDING with a tier.
C10_ClassifiedAtomically ==
    \A i \in 1..Len(store) :
        /\ store[i].classificationState = "CLASSIFIED" =>
              store[i].tier \in Tiers /\ store[i].traits # UNDEFINED
        /\ store[i].classificationState = "PENDING" =>
              store[i].tier = UNDEFINED

\* the stored report with the given id
Stored(id) == CHOOSE r \in Range(store) : r.id = id

IsStored(id) == \E r \in Range(store) : r.id = id

\* C11: over successive runs a report's classificationState goes from
\* PENDING to CLASSIFIED at most once: a CLASSIFIED report stays CLASSIFIED
\* with the tier it was given, no report is removed, and a PENDING report
\* has no tier.
C11_ClassifiedOnce ==
    /\ [](\A i \in 1..Len(store) :
            /\ store[i].classificationState \in {"PENDING", "CLASSIFIED"}
            /\ store[i].classificationState = "PENDING" =>
                  store[i].tier = UNDEFINED)
    /\ [][ /\ Len(store') >= Len(store)
           /\ \A i \in 1..Len(store) :
                 /\ store'[i].id = store[i].id
                 /\ store[i].classificationState = "CLASSIFIED" =>
                       /\ store'[i].classificationState = "CLASSIFIED"
                       /\ store'[i].tier = store[i].tier ]_vars

\* a later run has classified the third report, the first two having been
\* classified before it started
C11_Witness ==
    /\ classifyPc = "returned"
    /\ Len(store) = 3
    /\ \A i \in 1..3 : store[i].classificationState = "CLASSIFIED"
    /\ Len(reportsToReview) = 1
    /\ reportsToReview[1].id = 3
    /\ classifyOutcomes = <<"classified">>

\* C12: a report for which the agent answered null, or the agent call or
\* the update threw, is stored as it was fetched (PENDING), the failure is
\* counted, the reports after it are processed all the same and execute
\* does not throw.
C12_PerReportIsolation ==
    /\ \A k \in 1..Len(reportsToReview) :
          reportsToReview[k].classificationState = "PENDING"
    /\ \A k \in FailedPositions :
          /\ IsStored(reportsToReview[k].id)
          /\ Stored(reportsToReview[k].id) = reportsToReview[k]
    /\ failedClassifications = Cardinality(FailedPositions)
    /\ \A k \in 1..Len(classifyInputs) :
          classifyInputs[k] = reportsToReview[k].id
    /\ Len(classifyOutcomes) <= Len(classifyInputs)
    /\ classifyPc = "returned" =>
          Len(classifyOutcomes) = Len(reportsToReview)
    /\ classifyPc = "thrown" =>
          classifyRejected = "findMany" /\ classifyOutcomes = <<>>

\* the agent call threw for the first report, the update threw for the
\* second, and the third was classified
C12_Witness ==
    /\ classifyPc = "returned"
    /\ classifyOutcomes = <<"agentThrew", "updateThrew", "classified">>
    /\ failedClassifications = 2
    /\ store[1].classificationState = "PENDING"
    /\ store[2].classificationState = "PENDING"
    /\ store[3].classificationState = "CLASSIFIED"

\* no stored report is pending classification
NothingPending ==
    \A i \in 1..Len(store) : store[i].classificationState # "PENDING"

\* C13: when findMany rejects, execute rethrows, the agent is not invoked
\* and update is not called.
C13_FetchFailureRethrown ==
    classifyRejected = "findMany" =>
        /\ classifyPc = "thrown"
        /\ classifyInputs = <<>>
        /\ updateCalls = <<>>
        /\ classifyOutcomes = <<>>
        /\ successfulClassifications = 0
        /\ failedClassifications = 0

\* findMany rejected while two reports were pending
C13_Witness ==
    /\ classifyPc = "thrown"
    /\ classifyRejected = "findMany"
    /\ Len(store) = 3
    /\ store[2].classificationState = "PENDING"
    /\ store[3].classificationState = "PENDING"

\* the reports the run before left PENDING are in the batch of this run,
\* which hands them to the agent again
RetriedByNextRun ==
    classifyPc \in {"agent", "update", "returned"} =>
        /\ \A id \in leftPending :
              \E k \in 1..Len(reportsToReview) : reportsToReview[k].id = id
        /\ classifyPc = "returned" =>
              leftPending \subseteq Range(classifyInputs)

\* how many reports the agent never classifies are stored before the i-th
StuckAhead(i) ==
    Cardinality({ j \in 1..(i - 1) : Unclassifiable(store[j]) })

\* C14 as stated: a report left PENDING is handed to the agent again by
\* the next run, and every pending report the agent can classify is
\* CLASSIFIED in the end, whatever the size of the backlog.
C14_EveryPendingClassified ==
    /\ []RetriedByNextRun
    /\ <>[](\A i \in 1..Len(store) :
               ~ Unclassifiable(store[i]) =>
                   store[i].classificationState = "CLASSIFIED")

\* C14, amended: a report left PENDING is handed to the agent again by the
\* next run, and a pending report the agent can classify is CLASSIFIED in
\* the end if fewer than CLASSIFY_LIMIT reports that stay PENDING are
\* stored before it.
C14_RetriedUntilClassified ==
    /\ []RetriedByNextRun
    /\ <>[](\A i \in 1..Len(store) :
               (~ Unclassifiable(store[i]) /\ StuckAhead(i) < CLASSIFY_LIMIT)
                  => store[i].classificationState = "CLASSIFIED")

\* of a backlog of more than CLASSIFY_LIMIT reports, the run before left
\* the first two PENDING; this run has classified the first and the last
\* one, which the run before had not fetched
C14_Witness ==
    /\ Len(store) > CLASSIFY_LIMIT
    /\ leftPending = {1, 2}
    /\ classifyPc = "returned"
    /\ classifyInputs = <<1, 2, Len(store)>>
    /\ classifyOutcomes = <<"classified", "updateThrew", "classified">>
    /\ store[Len(store)].classificationState = "CLASSIFIED"

\* C15: a run that finds no pending report calls neither the agent nor
\* update and returns without error.
C15_EmptyBatch ==
    /\ classifyPc \in {"agent", "update"} => reportsToReview # <<>>
    /\ (classifyPc \in {"returned", "thrown"} /\ classifyOutcomes = <<>>
          /\ classifyRejected = "none") =>
          /\ NothingPending
          /\ classifyPc = "returned"
          /\ reportsToReview = <<>>
          /\ classifyInputs = <<>>
          /\ updateCalls = <<>>
          /\ successfulClassifications = 0
          /\ failedClassifications = 0

\* earlier runs classified all three reports; this one found nothing
C15_Witness ==
    /\ classifyPc = "returned"
    /\ reportsToReview = <<>>
    /\ Len(store) = 3
    /\ NothingPending
    /\ classifyInputs = <<>>
    /\ updateCalls = <<>>

\* the ids of the reports the eligibility query returned to this run
SelectedIds ==
    { reportsToProcess[k].id : k \in 1..Len(reportsToProcess) }

\* the articles this run has built so far
BuiltArticles ==
    Range(createManyCalls) \cup Range(generatedArticles) \cup Range(articles)
       \cup (IF composePc = "create" THEN {article} ELSE {})

\* C16 as stated: a report is in the batch of a composition run iff it is
\* not DUPLICATE, is CLASSIFIED and has tier GENERAL or NICHE; a PENDING,
\* OFF_TOPIC or DUPLICATE report is never handed to the composition agent
\* and is the source of no article.
C16_SelectedIffPublishable ==
    /\ composePc \in {"agent", "create", "returned"} =>
          \A i \in 1..Len(store) :
              store[i].id \in SelectedIds
                 <=> /\ store[i].deduplicationState # "DUPLICATE"
                     /\ store[i].classificationState = "CLASSIFIED"
                     /\ store[i].tier \in {"GENERAL", "NICHE"}
    /\ \A i \in 1..Len(store) :
          (\/ store[i].classificationState = "PENDING"
           \/ store[i].tier = "OFF_TOPIC"
           \/ store[i].deduplicationState = "DUPLICATE")
             => /\ store[i].id \notin Range(composeInputs)
                /\ store[i].id \notin ReportsWithArticles(articles)

\* the positions of the batch where the model answered a result whose
\* number of frames is not the number of angles of the report
MismatchedPositions ==
    { k \in 1..Len(composeAnswers) :
         /\ composeAnswers[k].kind = "result"
         /\ Len(composeAnswers[k].frames) # Len(reportsToProcess[k].angles) }

PersistedByRun ==
    SubSeq(articles, Len(articles) - Len(generatedArticles) + 1,
           Len(articles))

\* C18: a null result, a rejected agent call or a rejected createMany ends
\* only that report's turn: the agent is invoked once per fetched report,
\* in order, execute does not throw, and the returned list is exactly the
\* list of the articles persisted.
C18_PerArticleIsolation ==
    /\ Len(composeInputs) <= Len(reportsToProcess)
    /\ \A k \in 1..Len(composeInputs) :
          composeInputs[k] = reportsToProcess[k].id
    /\ composePc = "returned" =>
          /\ Len(composeInputs) = Len(reportsToProcess)
          /\ Len(composeOutcomes) = Len(reportsToProcess)
    /\ composePc = "thrown" =>
          /\ composeRejected = "findStoriesWithoutArticles"
          /\ composeOutcomes = <<>>
    /\ Len(generatedArticles) <= Len(articles)
    /\ generatedArticles = PersistedByRun
    /\ Len(generatedArticles) =
          Cardinality({ k \in 1..Len(composeOutcomes) :
                           composeOutcomes[k] = "composed" })

\* the agent call rejected for the first report, createMany rejected for
\* the second, and the third article alone is returned
C18_Witness ==
    /\ composePc = "returned"
    /\ composeOutcomes = <<"agentThrew", "createThrew", "composed">>
    /\ Len(createManyCalls) = 2
    /\ Len(generatedArticles) = 1
    /\ generatedArticles[1].reportIds = <<3>>
    /\ articles = generatedArticles

\* C19: when findStoriesWithoutArticles rejects, execute rethrows and
\* neither the composition agent nor createMany is called.
C19_FetchFailureRethrown ==
    composeRejected = "findStoriesWithoutArticles" =>
        /\ composePc = "thrown"
        /\ composeInputs = <<>>
        /\ composeAnswers = <<>>
        /\ createManyCalls = <<>>
        /\ generatedArticles = <<>>

\* the query rejected while three reports were eligible
C19_Witness ==
    /\ composePc = "thrown"
    /\ composeRejected = "findStoriesWithoutArticles"
    /\ Len(store) = 3
    /\ \A i \in 1..3 : store[i].tier = "NICHE"

\* C20: an article has the one-element reportIds [report.id], the report's
\* dateline as publication date, the report's category, and is not fake;
\* a persisted article is never changed or removed.
C20_ArticleFromOneReport ==
    /\ [](\A a \in BuiltArticles :
            /\ Len(a.reportIds) = 1
            /\ a.reportIds[1] \in SelectedIds
            /\ a.publishedAt = Stored(a.reportIds[1]).dateline
            /\ a.category = ReportCategory(Stored(a.reportIds[1]))
            /\ a.authenticity = FALSE)
    /\ [][ /\ Len(articles') >= Len(articles)
           /\ \A i \in 1..Len(articles) : articles'[i] = articles[i] ]_vars

\* two articles persisted from two reports with different datelines and
\* categories
C20_Witness ==
    /\ composePc = "returned"
    /\ Len(articles) = 2
    /\ articles[1].reportIds # articles[2].reportIds
    /\ articles[1].publishedAt # articles[2].publishedAt
    /\ articles[1].category # articles[2].category

\* C21: when findStoriesWithoutArticles resolves with no report, execute
\* returns the empty list at once: it does not throw, the composition
\* agent is not called, createMany is not called and no article is stored.
C21_EmptyBatch ==
    (composePc # "find" /\ composeRejected = "none"
        /\ reportsToProcess = <<>>) =>
        /\ composePc = "returned"
        /\ generatedArticles = <<>>
        /\ composeInputs = <<>>
        /\ composeAnswers = <<>>
        /\ createManyCalls = <<>>
        /\ articles = <<>>

\* the store holds a pending, an off-topic and a duplicate report: the
\* query resolved with nothing and the run returned
C21_Witness ==
    /\ composePc = "returned"
    /\ composeRejected = "none"
    /\ Len(store) = 3
    /\ reportsToProcess = <<>>
    /\ generatedArticles = <<>>

\* the positions of the batch where the model answered a result with one
\* frame per angle of the report
ComposedPositions ==
    { k \in 1..Len(composeAnswers) :
         /\ composeAnswers[k].kind = "result"
         /\ Len(composeAnswers[k].frames) = Len(reportsToProcess[k].angles) }

IntakeSurvivors ==
    FilterBySourceReferences(
        FilterByArticleCount(newsStories, thresholds.minArticles),
        existingSourceReferences)

\* C25: when fetchNews resolves with no candidate, or when the article
\* count filter and the seen-source filter leave no candidate, execute
\* returns the empty list: it does not throw, the ingestion agent is not
\* called and no Report is created.
C25_NothingToIngest ==
    (/\ ingestPc \notin {"count", "sources", "fetch"}
     /\ rejectedCall = "none"
     /\ IntakeSurvivors = <<>>) =>
        /\ ingestPc = "returned"
        /\ ingestError = "none"
        /\ prioritizedReports = <<>>
        /\ agentInputs = <<>>
        /\ outcomes = <<>>
        /\ digestedReports = <<>>
        /\ persisted = <<>>
        /\ \A i \in 1..Len(store) :
              Range(store[i].sourceReferences) \subseteq
                 existingSourceReferences

\* the provider returned two candidates with enough articles, both with
\* a source already seen: the run returned nothing
C25_Witness ==
    /\ ingestPc = "returned"
    /\ Len(newsStories) = 2
    /\ Len(articleFilteredReports) = 2
    /\ IntakeSurvivors = <<>>
    /\ digestedReports = <<>>

\* the reports that were stored before this ingestion run started
StoredBeforeRun ==
    LET old(r) == \A j \in 1..Len(persisted) : persisted[j].id # r.id
    IN  SelectSeq(store, old)

\* the turn of the candidate the j-th report of this run was created for
TurnOf(j) ==
    CHOOSE k \in 1..Len(agentInputs) :
        agentInputs[k].articles = persisted[j].sourceReferences

\* C26 as stated: a report created in this run is visible to the checks
\* of the candidates processed after it, so no candidate is handed to the
\* ingestion agent while a report created earlier in the run cites one of
\* its sources; and the candidates selected before the loop stay selected.
C26_CreatedVisibleToLater ==
    /\ \A j \in 1..Len(persisted) : \A k \in 1..Len(agentInputs) :
          TurnOf(j) < k =>
             ArticleIds(agentInputs[k])
                \cap Range(persisted[j].sourceReferences) = {}
    /\ agentInputs = SubSeq(prioritizedReports, 1, Len(agentInputs))

\* C26 amended: every filter decision of a run is taken before the loop,
\* against the source references read at step 2, which are those of the
\* reports stored before the run; the selected candidates are all handed
\* to the agent, in order, whatever reports the run has created meanwhile.
C26_FilterDecidedBeforeLoop ==
    PostFilter =>
        /\ existingSourceReferences = AllSourceReferences(StoredBeforeRun)
        /\ prioritizedReports =
              Prioritize(IntakeSurvivors, thresholds.maxReportsPerRun)
        /\ agentInputs = SubSeq(prioritizedReports, 1, Len(agentInputs))
        /\ ingestPc = "returned" => agentInputs = prioritizedReports
        /\ \A j \in 1..Len(persisted) :
              Range(persisted[j].sourceReferences)
                 \cap existingSourceReferences = {}

\* one run created two reports that cite the same source: the second
\* candidate was not checked against the report of the first
C26_Witness ==
    /\ ingestPc = "returned"
    /\ Len(persisted) = 2
    /\ Range(persisted[1].sourceReferences)
          \cap Range(persisted[2].sourceReferences) # {}
    /\ agentInputs = prioritizedReports

\* C22: in every pipeline run the classification pass has started only
\* when the ingestion calls of all configured locales have returned, and a
\* composition call has started only when the classification pass has
\* returned: classification never runs beside an ingestion call of the run
\* and composition never runs beside classification.
C22_StepsInOrder ==
    /\ classifyPc # "idle" =>
          \A l \in LocaleIndexes : ingestTasks[l].pc = "returned"
    /\ \A l \in LocaleIndexes :
          composeTasks[l].pc # "idle" =>
             /\ classifyPc = "returned"
             /\ \A k \in LocaleIndexes : ingestTasks[k].pc = "returned"

\* a run went through the three steps: three reports were ingested, the
\* pass classified them and both locales got an article
C22_Witness ==
    /\ taskPc = "done"
    /\ Len(store) = 3
    /\ classifyOutcomes = <<"classified", "classified", "classified">>
    /\ \E i, j \in 1..Len(articles) :
          articles[i].country # articles[j].country

\* the ids of the reports the runs can create
ReportIds ==
    UNION { { ReportIdOf(StoriesOf(l)[k]) : k \in 1..Len(StoriesOf(l)) } :
               l \in LocaleIndexes }

\* the calls that have a write to the report in flight
WritersOf(id) ==
    { << "ingest", l >> : l \in { k \in LocaleIndexes :
                                     /\ ingestTasks[k].pc = "create"
                                     /\ ingestTasks[k].report.id = id } }
       \cup (IF classifyPc = "update"
                  /\ reportsToReview[reviewIndex].id = id
              THEN { << "classify", 0 >> } ELSE {})

\* the loop of a per-locale call issues the agent call for an item only
\* at its start, for the first item, or after the step of the item before
OneAfterAnother(t, u) ==
    (u.pc = "agent" /\ (t.pc # "agent" \/ t.index # u.index)) =>
        \/ t.pc \in {"intake", "find"} /\ u.index = 1
        \/ t.pc \in {"agent", "create"} /\ u.index = t.index + 1

\* C23: in one invocation the agent call for an item is issued only after
\* the call and the write of the item before it have completed or failed,
\* and within a pipeline run, its concurrent per-locale calls included, at
\* most one write to any one Report is in flight.
C23_OneWriteInFlight ==
    /\ [](/\ \A id \in ReportIds : Cardinality(WritersOf(id)) <= 1
          /\ Len(classifyInputs) =
                Len(classifyOutcomes) + (IF classifyPc = "update" THEN 1 ELSE 0)
          /\ classifyPc \in {"agent", "update"} =>
                reviewIndex = Len(classifyOutcomes) + 1)
    /\ [][\A l \in LocaleIndexes :
            /\ OneAfterAnother(ingestTasks[l], ingestTasks'[l])
            /\ OneAfterAnother(composeTasks[l], composeTasks'[l])]_vars

\* the ingestion calls of both locales have a create in flight, for two
\* different reports, the first locale being at its second candidate
C23_Witness ==
    /\ ingestTasks[1].pc = "create"
    /\ ingestTasks[1].index = 2
    /\ ingestTasks[2].pc = "create"
    /\ ingestTasks[1].report.id # ingestTasks[2].report.id

\* the step is one that failed: a call rejected, or an item of the
\* classification pass ended as a failure
FailingStep ==
    \/ taskPc' = "rejected" /\ taskPc # "rejected"
    \/ \E l \in LocaleIndexes :
          \/ ingestTasks'[l].pc = "thrown" /\ ingestTasks[l].pc # "thrown"
          \/ composeTasks'[l].pc = "thrown" /\ composeTasks[l].pc # "thrown"
    \/ classifyPc' = "thrown" /\ classifyPc # "thrown"
    \/ failedClassifications' = failedClassifications + 1

\* the store changes by one report appended as PENDING or by one PENDING
\* report becoming CLASSIFIED, nothing else
OneReportWritten ==
    \/ /\ Len(store') = Len(store) + 1
       /\ SubSeq(store', 1, Len(store)) = store
       /\ store'[Len(store')].classificationState = "PENDING"
    \/ /\ Len(store') = Len(store)
       /\ \E i \in 1..Len(store) :
             /\ store[i].classificationState = "PENDING"
             /\ store'[i] = Classified(store[i], store'[i].tier)
             /\ \A j \in 1..Len(store) : j # i => store'[j] = store[j]

\* C29: when the ingestion call of a locale rejects, execute rejects with
\* the error of the call that rejected first, and neither the
\* classification pass nor a composition call is started in the run; when
\* the classification pass rejects, no composition call is started; a
\* failing step changes no Report and no Article, and a step that does
\* change the store writes one report.
C29_FailureStopsTheRun ==
    /\ []((\E l \in LocaleIndexes : ingestTasks[l].pc = "thrown") =>
             /\ taskPc = "rejected"
             /\ taskError[1] = "ingest"
             /\ ingestTasks[taskError[2]].pc = "thrown"
             /\ classifyPc = "idle"
             /\ \A l \in LocaleIndexes : composeTasks[l].pc = "idle")
    /\ [](classifyPc = "thrown" =>
             /\ taskPc \in {"classify", "rejected"}
             /\ taskPc = "rejected" => taskError = << "classify", 0 >>
             /\ \A l \in LocaleIndexes : composeTasks[l].pc = "idle")
    /\ [][/\ \A l \in LocaleIndexes :
              (/\ taskError = "none"
               /\ ingestTasks[l].pc # "thrown"
               /\ ingestTasks'[l].pc = "thrown") =>
                  taskError' = << "ingest", l >>
          /\ (taskError # "none" /\ taskPc' = "rejected") =>
                taskError' = taskError
          /\ FailingStep => store' = store /\ articles' = articles
          /\ store' # store => OneReportWritten]_vars

\* the ingestion call of the second locale rejected first and execute
\* rejected with its error; the call of the first locale went on, created
\* a report and then failed at its second candidate
C29_Witness ==
    /\ taskPc = "rejected"
    /\ taskError = << "ingest", 2 >>
    /\ ingestTasks[1].pc = "returned"
    /\ classifyPc = "idle"
    /\ Len(store) = 1
    /\ store[1].classificationState = "PENDING"

\* the configured locales have pairwise distinct countries
DistinctCountries ==
    \A i, j \in LocaleIndexes :
        i # j => TaskConfigs[i].country # TaskConfigs[j].country

\* the stored articles a report is the source of
ArticlesOf(id) ==
    { i \in 1..Len(articles) : id \in Range(articles[i].reportIds) }

\* C30: over successive pipeline runs of locales with pairwise distinct
\* countries, every Report is the source of at most one Article: the
\* report a composition call is working on has no article, and a report
\* with an article is in no batch position still to be processed.
C30_AtMostOneArticle ==
    DistinctCountries =>
        /\ \A id \in ReportIds : Cardinality(ArticlesOf(id)) <= 1
        /\ \A l \in LocaleIndexes :
              LET t == composeTasks[l] IN
              t.pc \in {"agent", "create"} =>
                 \A k \in t.index..Len(t.reportsToProcess) :
                    ArticlesOf(t.reportsToProcess[k].id) = {}

\* both reports of the first country are NICHE, one got its article in an
\* earlier run, and the query of this run returned the other one alone
C30_Witness ==
    /\ composeTasks[1].pc = "agent"
    /\ Len(composeTasks[1].reportsToProcess) = 1
    /\ LET mine == ReportsOf(store, TaskConfigs[1].country) IN
          /\ Len(mine) = 2
          /\ \A i \in 1..2 : mine[i].tier = "NICHE"
          /\ \E i \in 1..2 : ArticlesOf(mine[i].id) # {}

\* C24: a classification run hands to the agent, and updates, only reports
\* that are PENDING, and a composition run composes only reports that are
\* the source of no article; an invocation that finds nothing pending, or
\* nothing eligible, returns or rethrows without changing a Report or
\* creating an Article; the store changes only by a PENDING report
\* becoming CLASSIFIED and the articles only by one article of a report
\* that had none.
C24_Idempotent ==
    /\ [](classifyPc \in {"agent", "update"} =>
             Stored(reportsToReview[reviewIndex].id).classificationState
                = "PENDING")
    /\ [](composePc \in {"agent", "create"} =>
             reportsToProcess[composeIndex].id
                \notin ReportsWithArticles(articles))
    /\ [][/\ (/\ classifyPc = "find"
               /\ FindPendingClassification(store, CLASSIFY_LIMIT) = <<>>) =>
                 /\ classifyPc' \in {"returned", "thrown"}
                 /\ store' = store /\ articles' = articles
          /\ (/\ composePc = "find"
               /\ FindStoriesWithoutArticles(store, articles,
                      COMPOSE_CLASSIFICATIONS, Locale.country,
                      COMPOSE_LIMIT) = <<>>) =>
                 /\ composePc' \in {"returned", "thrown"}
                 /\ store' = store /\ articles' = articles
          /\ store' # store => OneReportWritten /\ Len(store') = Len(store)
          /\ articles' # articles =>
                /\ Len(articles') = Len(articles) + 1
                /\ SubSeq(articles', 1, Len(articles)) = articles
                /\ Range(articles'[Len(articles')].reportIds)
                      \cap ReportsWithArticles(articles) = {}]_vars

\* the three reports were classified and got their articles, and a
\* classification run called after that found nothing to do
C24_Witness ==
    /\ taskPc = "classify"
    /\ classifyPc = "returned"
    /\ reportsToReview = <<>>
    /\ Len(store) = 3
    /\ Len(store[1].angles) = 1
    /\ Len(store[2].angles) = 2
    /\ \A i \in 1..3 : store[i].id \in ReportsWithArticles(articles)

\* the ids of the reports in the batch of the run
BatchIds == { reportsToReview[k].id : k \in 1..Len(reportsToReview) }

\* the run that the schedule started after the two overlapping runs has
\* its batch
NextRunHasItsBatch ==
    /\ classifyPc \in {"agent", "update", "returned"}
    /\ classifyRejected = "none"

\* how many of the reports that were PENDING when both runs had settled
\* are stored before the report id
PendingAhead(id) ==
    Cardinality({ j \in 1..Len(store) :
                    /\ store[j].id \in leftPending
                    /\ \E i \in (j + 1)..Len(store) : store[i].id = id })

\* every stored report is CLASSIFIED with a tier or PENDING
ClassifiedOrPending ==
    \A i \in 1..Len(store) :
       \/ /\ store[i].classificationState = "CLASSIFIED"
          /\ store[i].tier \in Tiers
       \/ store[i].classificationState = "PENDING"

\* no step takes a CLASSIFIED report back to PENDING
StaysClassified ==
    \A i \in 1..Len(store) :
       store[i].classificationState = "CLASSIFIED" =>
          store'[i].classificationState = "CLASSIFIED"

\* C27 as stated: while and after two classification runs overlap every
\* report is CLASSIFIED with a tier or PENDING, no CLASSIFIED report goes
\* back to PENDING, and every report that is PENDING once both runs have
\* settled is in the batch of the next scheduled run.
C27_EveryPendingPickedUp ==
    /\ []ClassifiedOrPending
    /\ [][StaysClassified]_vars
    /\ [](NextRunHasItsBatch => leftPending \subseteq BatchIds)

\* C27, amended: while and after two classification runs overlap every
\* report is CLASSIFIED with a tier or PENDING, no CLASSIFIED report goes
\* back to PENDING, and a report that is PENDING once both runs have
\* settled is in the batch of the next scheduled run if fewer than
\* CLASSIFY_LIMIT such reports are stored before it.
C27_LostUpdatesTolerated ==
    /\ []ClassifiedOrPending
    /\ [][StaysClassified]_vars
    /\ [](NextRunHasItsBatch =>
            \A id \in leftPending :
               PendingAhead(id) < CLASSIFY_LIMIT => id \in BatchIds)

\* both runs have returned, both have had the second report updated, one
\* write replacing the other, and the third report, which both runs
\* fetched, is still PENDING
C27_Witness ==
    /\ classifyPc = "returned"
    /\ secondRun.pc = "returned"
    /\ Len(store) = 3
    /\ classifyInputs = <<2, 3>>
    /\ classifyOutcomes = <<"classified", "null">>
    /\ secondRun.updated = {2}
    /\ store[2].classificationState = "CLASSIFIED"
    /\ store[3].classificationState = "PENDING"

\* the reports that were stored when the run started
StoredAtStart ==
    LET earlier(r) == r.id \notin ReportIds
    IN  SelectSeq(store, earlier)

\* the thresholds the call of locale l computes when it runs alone
ThresholdsAlone(l) ==
    getDynamicThresholds(
        Len(ReportsOf(StoredAtStart, TaskConfigs[l].country)))

\* the stories the call of locale l selects when it runs alone
SelectedAlone(l) ==
    SelectedOf(l, ThresholdsAlone(l),
               AllSourceReferences(
                   ReportsOf(StoredAtStart, TaskConfigs[l].country)))

\* the reports of the country of locale l created in this run
CreatedFor(l) ==
    Range(ReportsOf(store, TaskConfigs[l].country)) \ Range(StoredAtStart)

\* C31: with distinct countries, whatever the interleaving of the calls of
\* the ingestion tasks, each task computes the thresholds, reads the source
\* references and selects the stories it would when running alone, and the
\* reports it creates are reports of stories of that selection.
C31_LocalesIndependent ==
    \A l \in LocaleIndexes :
       LET t == ingestTasks[l] IN
       /\ t.pc \in {"sources", "fetch", "agent", "create"} =>
              t.thresholds = ThresholdsAlone(l)
       /\ t.pc \in {"fetch", "agent", "create"} =>
              t.existingSourceReferences =
                 AllSourceReferences(
                     ReportsOf(StoredAtStart, TaskConfigs[l].country))
       /\ t.pc \in {"agent", "create"} =>
              t.prioritizedReports = SelectedAlone(l)
       /\ \A r \in CreatedFor(l) :
              \E k \in 1..Len(SelectedAlone(l)) :
                 r = NewReport(ReportIdOf(SelectedAlone(l)[k]),
                               DigestOf(SelectedAlone(l)[k]),
                               SelectedAlone(l)[k], TaskConfigs[l].country)

\* the call of the second locale has created its report before the call of
\* the first locale counted; the first, three of its country's reports
\* being stored before the run, still has the widest thresholds and both
\* its stories selected
C31_Witness ==
    /\ Len(StoredAtStart) = 5
    /\ Len(store) = 6
    /\ store[6].country = TaskConfigs[2].country
    /\ ingestTasks[2].pc = "returned"
    /\ ingestTasks[1].pc = "agent"
    /\ ingestTasks[1].thresholds.maxReportsPerRun = 3
    /\ Len(ingestTasks[1].prioritizedReports) = 2

\* the fields of a report that are not its classification
ReportFrame(r) ==
    [ id |-> r.id, sourceReferences |-> r.sourceReferences,
      dateline |-> r.dateline, core |-> r.core, background |-> r.background,
      categories |-> r.categories, angles |-> r.angles,
      deduplicationState |-> r.deduplicationState ]

\* the positions of the stored reports that the step changes
ChangedReports == { i \in 1..Len(store) : store'[i] # store[i] }

\* C32: no step removes a report or changes a field of a report other than
\* its classification; a step that changes a report is the update of the
\* classification run, changes the report being processed and no other and
\* creates nothing; a step of an ingestion call can only append the report
\* it built, a step of a composition call can only append the article it
\* built, and neither changes a stored report.
C32_FrameEffects ==
    [][ /\ Len(store') >= Len(store)
        /\ \A i \in 1..Len(store) :
              ReportFrame(store'[i]) = ReportFrame(store[i])
        /\ ChangedReports # {} =>
              /\ classifyPc = "update"
              /\ ChangedReports =
                    { i \in 1..Len(store) :
                        store[i].id = reportsToReview[reviewIndex].id }
              /\ Len(store') = Len(store)
              /\ articles' = articles
        /\ Len(store') > Len(store) =>
              /\ \E l \in LocaleIndexes :
                    /\ ingestTasks[l].pc = "create"
                    /\ store' = Append(store, ingestTasks[l].report)
              /\ articles' = articles
        /\ articles' # articles =>
              /\ \E l \in LocaleIndexes :
                    /\ composeTasks[l].pc = "create"
                    /\ articles' = Append(articles, composeTasks[l].article)
              /\ store' = store
        /\ ingestTasks' # ingestTasks =>
              /\ ChangedReports = {}
              /\ articles' = articles
        /\ (composeTasks' # composeTasks \/ composeVars' # composeVars) =>
              store' = store ]_vars

\* the report ingested in this run for the first story of the first locale
\* has been classified and an article has been composed from it: but for
\* its classification it is the report that ingestion built
C32_Witness ==
    /\ Len(store) = 3
    /\ Len(articles) >= 1
    /\ articles[1].reportIds = << store[1].id >>
    /\ store[1].classificationState = "CLASSIFIED"
    /\ store[1].tier = "NICHE"
    /\ \E k \in 1..Len(StoriesOf(1)) :
          ReportFrame(store[1]) =
             ReportFrame(NewReport(ReportIdOf(StoriesOf(1)[k]),
                                   DigestOf(StoriesOf(1)[k]), StoriesOf(1)[k],
                                   TaskConfigs[1].country))

\* the positions in the batch of the reports whose update was written
WrittenPositions ==
    { k \in 1..Len(reportsToReview) :
        /\ IsStored(reportsToReview[k].id)
        /\ Stored(reportsToReview[k].id).classificationState = "CLASSIFIED" }

\* C33: when a classification run has returned from a non-empty batch, the
\* agent has been called once per fetched report, in the order of the
\* batch, successfulClassifications + failedClassifications is the size of
\* the batch, and successfulClassifications is the number of reports of
\* the batch whose update was written.
C33_CountersAddUp ==
    (classifyPc = "returned" /\ reportsToReview # <<>>) =>
        /\ classifyInputs =
              [ k \in 1..Len(reportsToReview) |-> reportsToReview[k].id ]
        /\ successfulClassifications + failedClassifications =
              Len(reportsToReview)
        /\ successfulClassifications = Cardinality(WrittenPositions)
        /\ WrittenPositions =
              { k \in 1..Len(classifyOutcomes) :
                  classifyOutcomes[k] = "classified" }

\* of a batch of three, the first report was classified, the agent
\* answered null for the second and the update of the third threw
C33_Witness ==
    /\ classifyPc = "returned"
    /\ Len(reportsToReview) = 3
    /\ classifyOutcomes = <<"classified", "null", "updateThrew">>
    /\ successfulClassifications = 1
    /\ failedClassifications = 2

\* C34: the sourceReferences of every report created in an ingestion run
\* are disjoint from the source ids read at step 2 of the run, which are
\* those of the reports stored before the run, so that a report created in
\* this run shares no source id with a report of an earlier run.
C34_NewSourcesOnly ==
    /\ ingestPc \in {"fetch", "agent", "create", "returned"} =>
          existingSourceReferences = AllSourceReferences(StoredBeforeRun)
    /\ \A j \in 1..Len(persisted) :
          /\ Range(persisted[j].sourceReferences)
                 \cap existingSourceReferences = {}
          /\ \A r \in Range(StoredBeforeRun) :
                Range(persisted[j].sourceReferences)
                   \cap Range(r.sourceReferences) = {}

\* a report is stored from an earlier run; of a batch that holds a later
\* version of its story and two other stories, the two others have got a
\* report and the later version has not
C34_Witness ==
    /\ ingestPc = "returned"
    /\ StoredBeforeRun # <<>>
    /\ Len(newsStories) = 3
    /\ \E k \in 1..3 :
          /\ ArticleIds(newsStories[k]) \cap existingSourceReferences # {}
          /\ ~ (ArticleIds(newsStories[k]) \subseteq existingSourceReferences)
    /\ Len(persisted) = 2

\* the turn of the loop in which the j-th report of this run was created
IngestedTurn(j) ==
    CHOOSE k \in 1..Len(outcomes) :
        /\ outcomes[k] = "ingested"
        /\ Cardinality({ i \in 1..k : outcomes[i] = "ingested" }) = j

\* C35: the j-th report created in a run has the article ids of the
\* candidate of its turn as sourceReferences, in the candidate's order, and
\* that candidate's publication time as dateline; it has at least
\* minArticles source references, which is at least 8, and at least 30 in
\* a run that counted DAILY_TARGET reports or more.
C35_BuiltFromCandidate ==
    /\ Len(persisted) =
          Cardinality({ k \in 1..Len(outcomes) : outcomes[k] = "ingested" })
    /\ \A j \in 1..Len(persisted) :
          LET newsReport == prioritizedReports[IngestedTurn(j)] IN
          /\ persisted[j].sourceReferences = newsReport.articles
          /\ persisted[j].dateline = newsReport.publishedAt
          /\ \E i \in 1..Len(store) : store[i] = persisted[j]
          /\ Len(persisted[j].sourceReferences) >= thresholds.minArticles
          /\ thresholds.minArticles >= 8
          /\ todayReportCount >= DAILY_TARGET =>
                Len(persisted[j].sourceReferences) >= 30

\* the agent failed for the first selected candidate; the reports of this
\* run are those of the second and the third, each with the sources and
\* the publication time of its own candidate
C35_Witness ==
    /\ ingestPc = "returned"
    /\ Len(outcomes) = 3
    /\ outcomes[1] # "ingested"
    /\ Len(persisted) = 2
    /\ persisted[1].sourceReferences = prioritizedReports[2].articles
    /\ persisted[2].dateline = prioritizedReports[3].publishedAt
    /\ prioritizedReports[1].publishedAt # prioritizedReports[2].publishedAt

\* the composition call that is running, or has just settled, failed for
\* the report id
FailedToCompose(id) ==
    \E k \in 1..Len(composeOutcomes) :
       composeInputs[k] = id /\ composeOutcomes[k] # "composed"

HasArticle(id) == id \in ReportsWithArticles(articles)

\* the report id is stored and findStoriesWithoutArticles can return it
StaysEligible(id) ==
    \E i \in 1..Len(store) :
       /\ store[i].id = id
       /\ store[i].country = Locale.country
       /\ store[i].classificationState = "CLASSIFIED"
       /\ store[i].tier \in COMPOSE_CLASSIFICATIONS
       /\ store[i].deduplicationState # "DUPLICATE"

\* how many reports the agent never composes are stored before report id
CrowdedAhead(id) ==
    Cardinality({ j \in 1..Len(store) :
                    /\ Uncomposable(store[j])
                    /\ \E i \in (j + 1)..Len(store) : store[i].id = id })

\* the reports a composition can succeed for
ComposableIds ==
    { store[i].id : i \in { k \in 1..Len(store) : ~ Uncomposable(store[k]) } }

\* a report a composition call failed for has no article while the call
\* runs on and when it has settled, and stays eligible
FailedStaysEligible ==
    \A i \in 1..Len(store) :
       FailedToCompose(store[i].id) =>
          ~ HasArticle(store[i].id) /\ StaysEligible(store[i].id)

\* C36 as stated: a report whose composition failed in a run has no
\* article afterwards and stays eligible, and if the calls can succeed for
\* it, it gets an article in the end.
C36_FailedGetsArticle ==
    /\ []FailedStaysEligible
    /\ \A id \in 1..(COMPOSE_LIMIT + 1) :
          (id \in ComposableIds /\ FailedToCompose(id)) ~> HasArticle(id)

\* C36, amended: a report whose composition failed in a run has no article
\* afterwards and stays eligible, and if the calls can succeed for it and
\* fewer than COMPOSE_LIMIT reports the agent never composes are stored
\* before it, it gets an article in the end.
C36_RetriedUntilComposed ==
    /\ []FailedStaysEligible
    /\ \A id \in 1..(COMPOSE_LIMIT + 1) :
          (/\ id \in ComposableIds
           /\ FailedToCompose(id)
           /\ CrowdedAhead(id) < COMPOSE_LIMIT) ~> HasArticle(id)

\* createMany failed for the last report in the first run; since then the
\* crowded reports before it were classified, and a later run, after
\* failing for each of them, has composed its article
C36_Witness ==
    /\ Len(store) = COMPOSE_LIMIT + 1
    /\ composePc = "returned"
    /\ Len(composeInputs) = COMPOSE_LIMIT
    /\ composeInputs[COMPOSE_LIMIT] = COMPOSE_LIMIT + 1
    /\ composeOutcomes[COMPOSE_LIMIT] = "composed"
    /\ \A k \in 1..(COMPOSE_LIMIT - 1) : composeOutcomes[k] = "null"
    /\ uuidCount = 3
    /\ HasArticle(COMPOSE_LIMIT + 1)

\* a loop that stays in its body keeps its batch, and leaves an index only
\* for the next one: the only step that keeps the index is the one from
\* the agent call to the write of the same turn
LoopMovesOn(pc, batch, i, pcNext, batchNext, iNext, write) ==
    (pc \in {"agent", write} /\ pcNext \in {"agent", write}) =>
        /\ batchNext = batch
        /\ iNext \in {i, i + 1}
        /\ (iNext = i /\ pcNext # pc) => (pc = "agent" /\ pcNext = write)
        /\ (iNext = i + 1) => pcNext = "agent"

\* C37: when every awaited call returns or throws, a pipeline run that has
\* started resolves or rejects; the batch of every loop is fetched before
\* the loop and bounded (maxReportsPerRun candidates at most, that is 3,
\* CLASSIFY_LIMIT pending reports, COMPOSE_LIMIT eligible reports), does
\* not change during the loop, and every turn of a loop takes the next
\* index.
C37_EveryRunTerminates ==
    /\ (taskPc \in {"ingest", "classify", "compose"})
          ~> (taskPc \in {"done", "rejected"})
    /\ [](/\ Len(reportsToReview) <= CLASSIFY_LIMIT
          /\ \A l \in LocaleIndexes :
                /\ Len(ingestTasks[l].prioritizedReports)
                      <= getDynamicThresholds(0).maxReportsPerRun
                /\ Len(composeTasks[l].reportsToProcess) <= COMPOSE_LIMIT)
    /\ [][ /\ LoopMovesOn(classifyPc, reportsToReview, reviewIndex,
                          classifyPc', reportsToReview', reviewIndex',
                          "update")
           /\ \A l \in LocaleIndexes :
                 /\ LoopMovesOn(ingestTasks[l].pc,
                                ingestTasks[l].prioritizedReports,
                                ingestTasks[l].index,
                                ingestTasks'[l].pc,
                                ingestTasks'[l].prioritizedReports,
                                ingestTasks'[l].index, "create")
                 /\ LoopMovesOn(composeTasks[l].pc,
                                composeTasks[l].reportsToProcess,
                                composeTasks[l].index,
                                composeTasks'[l].pc,
                                composeTasks'[l].reportsToProcess,
                                composeTasks'[l].index, "create") ]_vars

\* a run has resolved after each of its loops took more than one turn:
\* two reports were ingested for the first locale, the classification
\* pass reviewed three and step 3 has returned for every locale
C37_Witness ==
    /\ taskPc = "done"
    /\ Len(store) = 3
    /\ Len(classifyInputs) = 3
    /\ classifyPc = "returned"
    /\ \A l \in LocaleIndexes : composeTasks[l].pc = "returned"
    /\ Len(articles) >= 1

====
